---- MODULE Spec2Model ----
(***************************************************************************)
(* Livnium engine: a cubic lattice of N^3 tokens acted on by the 24 proper *)
(* cube rotations, globally or on a cube-shaped region, with a             *)
(* self-auditing permutation engine (core/coords.py, core/rotations.py,    *)
(* invariants/rotation_group.py, core/engine.py).                          *)
(*                                                                         *)
(* Python lists and dicts keyed by 0-based integers are functions on       *)
(* 0..n-1; Python tuples are TLA+ tuples (1-based); an Optional value is   *)
(* the empty sequence (None) or a non-empty one.  A function that can      *)
(* raise returns a record whose field `raised` names the exception         *)
(* ("none" when it returned).                                              *)
(***************************************************************************)
EXTENDS Integers, Sequences, FiniteSets, TLC

VARIABLES N, grid, last_op_id, last_action, call, calls, pc, args, before

vars == <<N, grid, last_op_id, last_action, call, calls, pc, args, before>>

(***************************************************************************)
(* Bounds of the model.                                                    *)
(***************************************************************************)
\* lattice sizes the engine is constructed with (the tests' N)
Sizes == {3, 5}

\* the sizes build_coords is asked for: negative, zero, even, one, odd
MaxBuildSize == 7

BuildSizes == (-2)..MaxBuildSize

\* number of calls made on one engine in the call-sequence specification
MaxCalls == 2

\* number of steps of an annealing run
MaxAnnealSteps == 2

\* the steps of a random walk
MaxWalkSteps == 8

\* the steps of a walk of global moves that outlasts the rotation group
MaxOrbitSteps == 25

\* anneal_steps of recovery_experiment, which is 3000 in the source
RecoveryAnnealSteps == 2

\* the most trials of one recovery_experiment
MaxTrials == 2

\* longest perturbation requested
MaxPerturbSteps == 2

None == <<>>

Range(f) == {f[i] : i \in DOMAIN f}

\* a Python list or dict is built once and then looked up: the function is
\* evaluated at every index when it is built and kept as a table
Stored(f) == f @@ <<>>

abs(x) == IF x < 0 THEN -x ELSE x

max3(a, b, c) == IF a >= b /\ a >= c THEN a ELSE IF b >= c THEN b ELSE c

\* Python's ordering of equal-length integer tuples
TupleLess(u, v) ==
    \E i \in 1..Len(u) : u[i] < v[i] /\ \A j \in 1..(i - 1) : u[j] = v[j]

\* list.sort() of distinct items: position i holds the item with i smaller ones
SortedBy(S, rank) ==
    Stored([i \in 0..(Cardinality(S) - 1) |-> CHOOSE x \in S : rank[x] = i])

\* {item: i for i, item in enumerate(list)}
IndexOf(list) ==
    Stored([x \in Range(list) |-> CHOOSE i \in DOMAIN list : list[i] = x])

(***************************************************************************)
(* core/rotations.py                                                       *)
(***************************************************************************)
NUM_ROTATIONS == 24

det3(m) ==
    LET a == m[1][1]  b == m[1][2]  c == m[1][3]
        d == m[2][1]  e == m[2][2]  f == m[2][3]
        g == m[3][1]  h == m[3][2]  i == m[3][3]
    IN  a * (e * i - f * h) - b * (d * i - f * g) + c * (d * h - e * g)

\* a fault: the entrywise product in place of the matrix product
mat_mul_as(a, b) ==
    << <<a[1][1] * b[1][1], a[1][2] * b[1][2], a[1][3] * b[1][3]>>,
       <<a[2][1] * b[2][1], a[2][2] * b[2][2], a[2][3] * b[2][3]>>,
       <<a[3][1] * b[3][1], a[3][2] * b[3][2], a[3][3] * b[3][3]>> >>

mat_mul(a, b) ==
    LET s(r, c) == a[r][1] * b[1][c] + a[r][2] * b[2][c] + a[r][3] * b[3][c]
    IN  << <<s(1, 1), s(1, 2), s(1, 3)>>,
           <<s(2, 1), s(2, 2), s(2, 3)>>,
           <<s(3, 1), s(3, 2), s(3, 3)>> >>

\* a fault: the rotated coordinate loses its signs
mat_vec_as(m, v) ==
    <<abs(m[1][1] * v[1] + m[1][2] * v[2] + m[1][3] * v[3]),
      abs(m[2][1] * v[1] + m[2][2] * v[2] + m[2][3] * v[3]),
      abs(m[3][1] * v[1] + m[3][2] * v[2] + m[3][3] * v[3])>>

mat_vec(m, v) ==
    << m[1][1] * v[1] + m[1][2] * v[2] + m[1][3] * v[3],
       m[2][1] * v[1] + m[2][2] * v[2] + m[2][3] * v[3],
       m[3][1] * v[1] + m[3][2] * v[2] + m[3][3] * v[3] >>

\* a fault: the matrix itself in place of its transpose
transpose_as(m) == m

transpose(m) ==
    << <<m[1][1], m[2][1], m[3][1]>>,
       <<m[1][2], m[2][2], m[3][2]>>,
       <<m[1][3], m[2][3], m[3][3]>> >>

axes == << <<1, 0, 0>>, <<0, 1, 0>>, <<0, 0, 1>> >>

\* itertools.permutations(axes, 3), as the orders of the three axis positions
AxisPermutations ==
    {p \in [1..3 -> 1..3] : \A i, j \in 1..3 : i # j => p[i] # p[j]}

\* itertools.product([1, -1], repeat=3)
SignTriples == [1..3 -> {1, -1}]

\* (s * px, s * py, s * pz)
SignedRow(s, p) == <<s * p[1], s * p[2], s * p[3]>>

SignedMatrix(perm, signs) ==
    << SignedRow(signs[1], axes[perm[1]]),
       SignedRow(signs[2], axes[perm[2]]),
       SignedRow(signs[3], axes[perm[3]]) >>

\* a fault: the determinant filter is dropped
ProperCandidates_as ==
    {SignedMatrix(perm, signs) : perm \in AxisPermutations, signs \in SignTriples}

\* the candidates that pass the determinant filter; as a set they are
\* already the de-duplicated list `uniq`
ProperCandidates ==
    {m \in {SignedMatrix(p, s) : p \in AxisPermutations, s \in SignTriples} :
        det3(m) = 1}

\* tuple comparison of two matrices: row by row, entry by entry
MatrixLess(x, y) == TupleLess(x[1] \o x[2] \o x[3], y[1] \o y[2] \o y[3])

\* uniq.sort()
SortedMatrices(uniq) ==
    SortedBy(uniq, Stored([m \in uniq |-> Cardinality({x \in uniq : MatrixLess(x, m)})]))

\* the count guard, then the sort
CheckedRotations(uniq) ==
    IF Cardinality(uniq) # NUM_ROTATIONS
    THEN [raised |-> "AssertionError: expected 24 proper rotations", value |-> <<>>]
    ELSE [raised |-> "none", value |-> SortedMatrices(uniq)]

generate_proper_rotations == CheckedRotations(ProperCandidates)

ROTATIONS == generate_proper_rotations.value

ROTATION_INDEX == IndexOf(ROTATIONS)

\* ROTATION_INDEX[inv]: KeyError when inv is not one of ROTATIONS
LookupRotation(index, inv) ==
    IF inv \in DOMAIN index
    THEN [raised |-> "none", value |-> index[inv]]
    ELSE [raised |-> "KeyError", value |-> 0]

inverse_rotation_index(op_id) ==
    LookupRotation(ROTATION_INDEX, transpose(ROTATIONS[op_id]))

(***************************************************************************)
(* invariants/rotation_group.py                                            *)
(***************************************************************************)
\* table[a][b] of build_compose_table: the id of ROTATIONS[a] . ROTATIONS[b],
\* AssertionError when the product is not one of the 24
ComposeEntry(rotations, index, a, b) ==
    IF mat_mul(rotations[a], rotations[b]) \in DOMAIN index
    THEN [raised |-> "none", value |-> index[mat_mul(rotations[a], rotations[b])]]
    ELSE [raised |-> "AssertionError: rotation closure violated", value |-> -1]

\* a fault: the product is taken in the other order
compose_entry_as(a, b) == ComposeEntry(ROTATIONS, ROTATION_INDEX, b, a)

compose_entry(a, b) == ComposeEntry(ROTATIONS, ROTATION_INDEX, a, b)

(***************************************************************************)
(* core/coords.py                                                          *)
(***************************************************************************)
LatticeCoords(k) == {<<x, y, z>> : x \in (-k)..k, y \in (-k)..k, z \in (-k)..k}

\* a fault: sorted by (z, y, x)
SortedCoords_as(coords) ==
    SortedBy(coords, Stored([c \in coords |->
        Cardinality({d \in coords : TupleLess(<<d[3], d[2], d[1]>>, <<c[3], c[2], c[1]>>)})]))

\* coords.sort(key=lambda t: (t[0], t[1], t[2]))
SortedCoords(coords) ==
    SortedBy(coords, Stored([c \in coords |-> Cardinality({d \in coords : TupleLess(d, c)})]))

CheckedCoords(n, k, index_to_coord, coord_to_index) ==
    [raised |-> IF Cardinality(DOMAIN coord_to_index) # n * n * n
                THEN "AssertionError: coordinate indexing mismatch"
                ELSE "none",
     N |-> n, k |-> k,
     index_to_coord |-> index_to_coord, coord_to_index |-> coord_to_index]

IndexedCoords(n, k, index_to_coord) ==
    CheckedCoords(n, k, index_to_coord, IndexOf(index_to_coord))

\* a fault: an even N is let through
build_coords_as(n) ==
    IF n < 3
    THEN [raised |-> "ValueError: N must be odd and >= 3", N |-> n, k |-> 0,
          index_to_coord |-> <<>>, coord_to_index |-> <<>>]
    ELSE IndexedCoords(n, n \div 2, SortedCoords(LatticeCoords(n \div 2)))

build_coords(n) ==
    IF n < 3 \/ (n % 2) # 1
    THEN [raised |-> "ValueError: N must be odd and >= 3", N |-> n, k |-> 0,
          index_to_coord |-> <<>>, coord_to_index |-> <<>>]
    ELSE IndexedCoords(n, n \div 2, SortedCoords(LatticeCoords(n \div 2)))

\* the Coords object of each constructed engine
COORDS == Stored([n \in Sizes |-> build_coords(n)])

(***************************************************************************)
(* The standard library's seeded generator, random.Random(seed), tabulated *)
(* for the modelled seeds (CPython 3.11).                                  *)
(***************************************************************************)
Seeds == {0, 1, 7}

\* random.Random(seed).shuffle(list(range(n))) for the modelled seeds:
\* entry i is the position the token at i after the shuffle came from
shuffle_order(seed, n) ==
    CASE seed = 0 /\ n = 27 ->
            <<3, 14, 10, 17, 5, 0, 7, 21, 19, 18, 23, 25, 4, 2, 22, 6, 11,
            20, 9, 26, 15, 16, 8, 1, 13, 24, 12>>
      [] seed = 1 /\ n = 27 ->
            <<23, 25, 11, 10, 22, 1, 5, 26, 19, 13, 9, 17, 16, 0, 7, 21, 6,
            12, 20, 14, 15, 3, 8, 2, 24, 18, 4>>
      [] seed = 7 /\ n = 27 ->
            <<9, 5, 21, 8, 7, 25, 14, 18, 26, 19, 13, 24, 15, 23, 0, 6, 16,
            22, 11, 3, 17, 2, 1, 20, 12, 4, 10>>
      [] seed = 0 /\ n = 125 ->
            <<46, 95, 120, 109, 104, 14, 52, 29, 30, 89, 10, 99, 3, 16, 23,
            84, 91, 25, 124, 43, 4, 22, 2, 76, 117, 44, 50, 73, 105, 82,
            59, 72, 122, 116, 54, 107, 85, 57, 48, 37, 47, 112, 13, 58, 21,
            123, 75, 86, 103, 35, 19, 6, 67, 114, 20, 83, 119, 69, 34, 101,
            92, 88, 15, 28, 24, 8, 41, 31, 98, 63, 0, 115, 11, 1, 80, 7,
            118, 66, 56, 111, 70, 26, 81, 78, 40, 55, 110, 94, 71, 60, 42,
            87, 9, 93, 102, 39, 18, 77, 90, 68, 32, 79, 12, 96, 121, 36,
            17, 64, 27, 74, 45, 61, 38, 106, 100, 51, 62, 65, 33, 5, 53,
            113, 97, 49, 108>>
      [] seed = 1 /\ n = 125 ->
            <<124, 38, 84, 41, 50, 4, 45, 121, 43, 36, 93, 14, 119, 82, 21,
            74, 7, 16, 24, 39, 20, 113, 105, 79, 101, 22, 9, 86, 85, 110,
            51, 78, 96, 46, 33, 10, 6, 61, 73, 5, 94, 35, 81, 11, 59, 109,
            52, 47, 65, 30, 103, 104, 25, 107, 31, 66, 18, 19, 68, 64, 123,
            87, 118, 88, 42, 117, 71, 23, 122, 53, 90, 37, 58, 80, 76, 44,
            95, 70, 116, 56, 28, 67, 99, 54, 27, 111, 1, 69, 112, 91, 2,
            106, 40, 13, 75, 29, 92, 34, 114, 89, 0, 98, 115, 77, 55, 49,
            3, 62, 12, 26, 100, 48, 83, 60, 57, 120, 63, 15, 32, 8, 97,
            102, 108, 72, 17>>
      [] seed = 7 /\ n = 125 ->
            <<35, 25, 75, 62, 3, 102, 111, 110, 16, 124, 0, 51, 104, 89,
            45, 85, 99, 56, 1, 60, 34, 81, 61, 48, 14, 65, 52, 120, 107,
            22, 43, 20, 42, 2, 78, 77, 118, 114, 10, 67, 32, 116, 109, 38,
            82, 88, 21, 31, 33, 58, 36, 87, 57, 49, 44, 103, 90, 95, 122,
            76, 29, 66, 84, 59, 40, 101, 63, 26, 93, 117, 115, 47, 24, 79,
            91, 13, 23, 86, 39, 92, 98, 69, 18, 106, 37, 17, 71, 5, 97,
            119, 123, 94, 73, 100, 113, 96, 80, 28, 15, 72, 112, 54, 70,
            108, 30, 8, 53, 55, 11, 4, 27, 64, 7, 74, 46, 12, 68, 105, 9,
            6, 83, 50, 19, 121, 41>>
      [] seed = 2 /\ n = 27 ->
            <<3, 20, 17, 15, 0, 24, 4, 7, 14, 16, 19, 23, 12, 18, 10, 13, 22,
            26, 6, 8, 9, 21, 5, 11, 25, 2, 1>>
      [] seed = 2 /\ n = 125 ->
            <<5, 12, 38, 120, 37, 88, 113, 13, 91, 43, 107, 123, 24, 18, 98, 8,
            101, 1, 78, 28, 0, 93, 2, 60, 83, 119, 16, 84, 6, 95, 9, 26, 112,
            19, 80, 51, 62, 102, 14, 99, 44, 35, 36, 63, 58, 114, 42, 75, 49,
            111, 52, 104, 31, 15, 33, 76, 79, 96, 70, 25, 86, 61, 118, 68, 66,
            45, 82, 53, 57, 23, 72, 89, 73, 97, 17, 116, 41, 100, 90, 29, 30,
            22, 71, 115, 67, 54, 48, 40, 59, 117, 3, 105, 34, 64, 56, 69, 47,
            65, 92, 50, 81, 55, 20, 87, 74, 4, 124, 27, 77, 32, 39, 109, 85,
            103, 94, 21, 106, 46, 10, 11, 7, 108, 121, 110, 122>>

perturb_draws(n, seed) ==
    CASE n = 3 /\ seed = 0 ->
        << [op_id |-> 12, radius |-> 2, center |-> <<>>] >>
      [] n = 3 /\ seed = 1 ->
        << [op_id |-> 4, radius |-> 1, center |-> <<0, 0, 0>>],
           [op_id |-> 14, radius |-> 2, center |-> <<>>] >>
      [] n = 3 /\ seed = 7 ->
        << [op_id |-> 10, radius |-> 1, center |-> <<0, 0, 0>>],
           [op_id |-> 17, radius |-> 1, center |-> <<0, 0, 0>>],
           [op_id |-> 1, radius |-> 1, center |-> <<0, 0, 0>>],
           [op_id |-> 7, radius |-> 1, center |-> <<0, 0, 0>>] >>
      [] n = 5 /\ seed = 0 ->
        << [op_id |-> 12, radius |-> 2, center |-> <<0, 0, 0>>],
           [op_id |-> 12, radius |-> 2, center |-> <<0, 0, 0>>],
           [op_id |-> 16, radius |-> 1, center |-> <<0, -1, -1>>],
           [op_id |-> 19, radius |-> 2, center |-> <<0, 0, 0>>] >>
      [] n = 5 /\ seed = 1 ->
        << [op_id |-> 4, radius |-> 1, center |-> <<0, -1, 0>>],
           [op_id |-> 14, radius |-> 2, center |-> <<0, 0, 0>>],
           [op_id |-> 15, radius |-> 1, center |-> <<0, 0, 1>>],
           [op_id |-> 0, radius |-> 2, center |-> <<0, 0, 0>>] >>
      [] n = 5 /\ seed = 7 ->
        << [op_id |-> 10, radius |-> 1, center |-> <<0, 1, -1>>],
           [op_id |-> 2, radius |-> 1, center |-> <<0, 1, -1>>],
           [op_id |-> 16, radius |-> 1, center |-> <<-1, -1, 0>>],
           [op_id |-> 13, radius |-> 1, center |-> <<-1, -1, 1>>] >>
      [] n = 3 /\ seed = 20000 ->
        << [op_id |-> 13, radius |-> 2, center |-> <<>>] >>
      [] n = 3 /\ seed = 20001 ->
        << [op_id |-> 10, radius |-> 2, center |-> <<>>] >>
      [] n = 3 /\ seed = 20002 ->
        << [op_id |-> 9, radius |-> 2, center |-> <<>>] >>
      [] n = 5 /\ seed = 20000 ->
        << [op_id |-> 13, radius |-> 2, center |-> <<0, 0, 0>>],
           [op_id |-> 18, radius |-> 1, center |-> <<-1, 1, 0>>],
           [op_id |-> 14, radius |-> 2, center |-> <<0, 0, 0>>],
           [op_id |-> 15, radius |-> 2, center |-> <<0, 0, 0>>] >>
      [] n = 5 /\ seed = 20001 ->
        << [op_id |-> 10, radius |-> 2, center |-> <<0, 0, 0>>],
           [op_id |-> 18, radius |-> 2, center |-> <<0, 0, 0>>],
           [op_id |-> 10, radius |-> 2, center |-> <<0, 0, 0>>],
           [op_id |-> 14, radius |-> 2, center |-> <<0, 0, 0>>] >>
      [] n = 5 /\ seed = 20002 ->
        << [op_id |-> 9, radius |-> 2, center |-> <<0, 0, 0>>],
           [op_id |-> 14, radius |-> 1, center |-> <<0, 0, -1>>],
           [op_id |-> 12, radius |-> 2, center |-> <<0, 0, 0>>],
           [op_id |-> 15, radius |-> 2, center |-> <<0, 0, 0>>] >>
      [] n = 3 /\ seed = 20003 ->
        << [op_id |-> 0, radius |-> 1, center |-> <<0, 0, 0>>],
           [op_id |-> 7, radius |-> 1, center |-> <<0, 0, 0>>],
           [op_id |-> 17, radius |-> 1, center |-> <<0, 0, 0>>],
           [op_id |-> 23, radius |-> 1, center |-> <<0, 0, 0>>] >>
      [] n = 5 /\ seed = 20003 ->
        << [op_id |-> 0, radius |-> 1, center |-> <<-1, -1, -1>>],
           [op_id |-> 7, radius |-> 1, center |-> <<-1, 0, 0>>],
           [op_id |-> 17, radius |-> 1, center |-> <<0, 0, -1>>],
           [op_id |-> 23, radius |-> 1, center |-> <<-1, 1, 0>>] >>

(***************************************************************************)
(* random.Random(seed) as the drivers use it (CPython 3.11, Lib/random.py). *)
(* A generator is its seed and the number of 32-bit outputs it has given;  *)
(* of each output the calls made here read the top 27 bits at most.        *)
(***************************************************************************)
\* the seeds generators are made with: those of Seeds, and those the
\* recovery experiment derives from the seeds 0 and 1 for its annealing runs
GeneratorSeeds == {0, 1, 7, 10000, 10001, 10002, 10003, 30000, 30001, 30002, 30003}

\* the first outputs of random.Random(seed), each shifted right by 5 bits
mt_words(seed) ==
    CASE seed = 0 ->
        <<113336382, 51706749, 101730917, 119486516, 56448162, 5433721,
          34751217, 129582503, 68622131, 65220111, 54349339, 123243325,
          105199665, 111380971, 40709944, 129895916, 63967760, 48056573,
          78300211, 119676667, 121884848, 29318886, 67737923, 18693000,
          37827635, 18756361, 101442323, 12727969, 82996081, 107293997,
          33622391, 132507686, 122104075, 71479480, 131907233, 94646617,
          108745516, 80785928, 121086664, 19724825, 41627302, 13255791,
          97956359, 9897541, 120640032, 114148664, 91802769, 44318320,
          63369922, 75136920, 13515887, 47485068, 58273557, 42439202,
          81991861, 85956173, 122542269, 27444538, 129735710, 74158472,
          64023168, 59417296, 116139932, 69974900, 34962686, 8359024,
          108049005, 123274271, 73645173, 122942698, 1884645, 12518737,
          96597127, 112755134, 53529189, 95328600, 110708818, 105367326,
          89678004, 83921759, 153386, 82127436, 66246899, 111140771,
          116447673, 44712641, 32737163, 98016331, 43648190, 94441303,
          116832671, 8453606, 25644590, 123080202, 76170002, 29756593,
          32026487, 107823147, 129861054, 19125273, 107800923, 72878878,
          60125458, 12242798, 10797254, 133307940, 42957001, 117452227,
          68174638, 133945484, 125202836, 65670960, 14637496, 40459503,
          73989837, 39069528, 94833067, 16751810, 73476275, 44661017,
          109315891, 123782263, 72515638, 27273290, 129364219, 107297290,
          80958204, 73447981>>
      [] seed = 1 ->
        <<18034063, 76397250, 113740630, 107678193, 102512094, 8470054,
          34234785, 15826780, 66496171, 102134650, 60329669, 63383683,
          87455328, 50951092, 105860656, 28179657, 12597620, 65479012,
          3804733, 119898983, 112174493, 52319252, 58085012, 81528947,
          102311500, 102966154, 282669, 93393106, 59778857, 35746282,
          96843463, 107619313, 30703945, 79343270, 126872085, 13720696,
          120987545, 42604684, 4105718, 2996023, 3415285, 87180606,
          72667152, 1235465, 126050466, 118277206, 51164366, 92138303,
          29071478, 130062434, 56655527, 97422287, 3897788, 70817221,
          29754951, 102502212, 58772277, 126052863, 66546792, 74203556,
          31284065, 46399124, 30986382, 90845073, 29364293, 102132676,
          61686932, 127808087, 38893829, 124353614, 2884299, 55858725,
          112417812, 122979655, 74686034, 123774053, 86207290, 13421809,
          24951916, 84470316, 133216921, 97125183, 115420069, 39780845,
          16225575, 99743456, 44653591, 120202094, 96835997, 130627706,
          95454543, 67216197, 125686927, 129816765, 56654242, 68144655,
          111405504, 122162970, 89966890, 25481199, 40717432, 38139224,
          78863733, 130654435, 118444326, 67023240, 113574694, 126287269,
          67818046, 52795029, 79054544, 114526370, 4633978, 64454973,
          32580007, 99821838, 107025786, 54262629, 55608283, 89220365,
          23220660, 49274526, 73658522, 118478286, 94360533, 104131166,
          90527955, 99081602>>
      [] seed = 7 ->
        <<43464097, 127220335, 20246633, 52992312, 87366946, 6480894,
          9722233, 110229569, 71924865, 12633920, 49081935, 78220482,
          7784483, 122098412, 68106871, 28816302, 5032582, 11535642,
          58202938, 56126116, 9375836, 32301241, 12175294, 73960310,
          56978001, 7933677, 110978213, 75893910, 16616417, 127164546,
          29962626, 84641177, 84212661, 78248519, 127199341, 8302983,
          77457446, 78590039, 53241552, 6655764, 131030742, 29673100,
          6252221, 74714297, 115221686, 17874421, 38870700, 56255890,
          19361589, 72569631, 15809806, 76626738, 41403729, 75196458,
          109538625, 91536852, 24256684, 13831903, 78061052, 76665755,
          85753514, 25215622, 49982352, 13076910, 73517017, 95577889,
          8427393, 75748230, 7999533, 83082061, 27643310, 66627625,
          91321738, 71366283, 57390467, 104317880, 42164119, 62492024,
          78592782, 123942204, 60825377, 48530762, 40234045, 33343251,
          106619809, 24127884, 93817444, 104666961, 32762079, 10986393,
          77097845, 40298754, 70490681, 66453392, 117458966, 46100526,
          97904489, 60241505, 38646352, 81733095, 131556841, 9824854,
          15846520, 68710461, 56119495, 22140838, 101621735, 45909953,
          20399018, 125261407, 65627516, 56599395, 5262308, 129120015,
          89686414, 10418044, 102618964, 74903659, 76910239, 105910426,
          117504642, 109837526, 42110478, 45650450, 93320964, 47000147,
          79774974, 66662562>>
      [] seed = 10000 ->
        <<77566547, 121352716, 102291094, 40038037, 129533341, 4891961,
          92628751, 16053406, 94889597, 3388763, 87630525, 103690371,
          84285726, 116818683, 363569, 35013223, 108872288, 124291074,
          67744393, 43764412, 23575449, 128633427, 130620075, 112980712,
          130382543, 114375832, 14052179, 91149972, 113633803, 76521176,
          50377173, 110659028, 799104, 114590107, 41150655, 2645208,
          77114853, 101282336, 117299613, 30200168, 125026140, 2633114,
          44074710, 77975168, 77887937, 35701112, 109171584, 69190050,
          70292487, 21868528, 96197301, 15748512, 92243565, 12210696,
          42853521, 2152286, 55323340, 87471164, 106788577, 127595454,
          20920514, 8311649, 123799200, 49740279, 126046524, 110154261,
          130263932, 62533842, 116995608, 54701723, 34075836, 44281328,
          50399072, 70462345, 108348896, 114820991, 66876049, 78376527,
          87546140, 86902851, 101772909, 112440984, 42945234, 116786741,
          98383289, 74464353, 22417995, 8476777, 39848182, 66463280,
          72778623, 68070138, 134030688, 78695817, 128082906, 91367045,
          57999212, 113162435, 10425008, 51992977, 28216022, 63435125,
          10536143, 119884059, 30483106, 18957268, 61283599, 79995562,
          98969694, 75251513, 117627375, 76378506, 124505668, 99745541,
          102532009, 7917839, 96410014, 76990367, 44802061, 118734742,
          87845390, 69357051, 4355491, 77959989, 81185349, 118626147,
          4291912, 70092016>>
      [] seed = 10001 ->
        <<47820443, 8396717, 110697362, 116575968, 16029018, 56502307,
          77984189, 55430257, 86421832, 9548479, 74700528, 36022404,
          17969668, 8520185, 129917143, 37524003, 2836222, 66944086,
          40983776, 23262994, 32057420, 43329955, 78278548, 101773142,
          115965799, 40615004, 50505443, 119894440, 59201129, 108331820,
          103038172, 84242312, 49273566, 64991575, 41148512, 53718035,
          5111494, 109610425, 65587872, 12965367, 130218103, 80408767,
          86241915, 119062040, 67855131, 52993546, 129617624, 123959548,
          47027802, 15936991, 83052882, 108230986, 90006283, 102397217,
          49198619, 2673905, 14945625, 119300283, 92711484, 25472312,
          42338159, 118692928, 8522981, 120200480, 5931169, 130309869,
          59953366, 47540933, 33871646, 110523285, 4548097, 98503695,
          129663459, 128280968, 70406371, 23372085, 76362017, 66746418,
          87245738, 45804524, 29056455, 110562162, 113432160, 97290304,
          62805422, 14839978, 126719970, 94500084, 114971643, 90052845,
          62037897, 124388199, 115470359, 101489896, 48917743, 115451921,
          2809679, 125380945, 112264852, 66589211, 6443429, 50569184,
          44314958, 50963029, 113835634, 76200215, 78818299, 10802471,
          109864426, 78526877, 28307878, 116235823, 113310566, 22147323,
          63771679, 31113117, 81383439, 55620901, 58818314, 102738287,
          111181002, 123173201, 97987125, 51293436, 86705908, 16398343,
          11391098, 42442315>>
      [] seed = 10002 ->
        <<52334500, 30476120, 14354802, 80004482, 4670635, 94263280,
          124533612, 42091561, 1906767, 68000574, 128568099, 36258800,
          97042747, 86994646, 88357008, 32879217, 47620798, 85108697,
          83492649, 20031331, 96457252, 131642248, 46868325, 85444855,
          125425225, 52586983, 97651333, 92508953, 130391628, 33823271,
          341654, 56826630, 84087537, 8384301, 105995173, 25877786,
          19783243, 94741922, 79193012, 7631929, 131116788, 67962009,
          36665248, 59855535, 1315387, 35060725, 112224232, 38516768,
          16948702, 12679420, 16327370, 77051020, 112613234, 94701341,
          112999139, 113209133, 74863652, 24884456, 40705519, 22263941,
          116594596, 60848027, 50018374, 26502694, 18809081, 60685175,
          59103340, 84575993, 131767133, 53063983, 95051721, 86813480,
          7353153, 13334562, 102574961, 50577167, 24404953, 125158430,
          109008003, 93767130, 133091864, 22125995, 109951530, 10061633,
          25649340, 130596289, 53874986, 53557393, 107294991, 109305048,
          40099279, 124508535, 125714712, 24339277, 50540452, 123608774,
          94157997, 36355471, 126843682, 129012315, 50424556, 90371793,
          3203063, 39344024, 11479738, 126723853, 68582663, 126076560,
          118824965, 94114937, 103545655, 67429374, 7656530, 65134390,
          36773941, 120556016, 64220597, 14255294, 87255017, 31801,
          43785554, 55178495, 68256368, 123334145, 122876910, 67864871,
          123426330, 7107454>>
      [] seed = 10003 ->
        <<117216893, 27212816, 660148, 56545966, 22441005, 56500140,
          53355263, 40791491, 60001440, 126197591, 35187764, 64265294,
          20421937, 53919906, 78722465, 13364200, 1034445, 117372303,
          126325826, 89109717, 129927648, 3075014, 133146086, 41072852,
          131430765, 39109951, 16382593, 41683502, 98217796, 116191650,
          81875800, 107438667, 58781200, 46841547, 69762889, 43237384,
          124742653, 11877110, 24342209, 18929681, 9080353, 95053090,
          101265371, 115480001, 12636028, 11276350, 127931151, 65288786,
          9607512, 116122383, 57196267, 120467873, 37217354, 103492671,
          100153771, 26174241, 85714268, 105805935, 91230044, 117358526,
          53081312, 60299765, 98289113, 88707705, 11091663, 15975752,
          100821683, 120635817, 86165482, 91306550, 55003176, 41290410,
          106141805, 99985843, 3520145, 102372987, 19613590, 114539253,
          112277225, 74334809, 50662956, 113016868, 12195847, 68510049,
          81021262, 124724687, 120948226, 13605059, 43169351, 13425453,
          12356439, 120720132, 98811022, 125719948, 99651191, 32210805,
          22043439, 108381835, 46163887, 54678362, 32765368, 88687109,
          80765078, 42767548, 122664444, 110770098, 32193483, 12104748,
          67807736, 51959808, 117573943, 43755358, 86159029, 58661718,
          33486996, 115260939, 74491855, 5105986, 64169696, 9784506,
          2523851, 91168996, 71615317, 12366795, 775274, 130788665,
          93004298, 65258171>>
      [] seed = 30000 ->
        <<26950650, 3909187, 106520631, 64988315, 13388677, 29499228,
          2287803, 109565846, 122089830, 14391785, 131180531, 44854435,
          60856389, 41370152, 9667922, 21918534, 100119527, 98592543,
          109586040, 26744074, 117663004, 15063152, 122933230, 53210382,
          37369854, 104429464, 58837946, 108004775, 10310132, 60034039,
          18648383, 70317181, 110736700, 7879996, 65723994, 131081264,
          120098430, 49930734, 2948931, 44488048, 118209012, 6588730,
          83724113, 13556477, 29842949, 133312918, 121435077, 7731813,
          87789804, 49920260, 48541355, 52408833, 48697970, 54981864,
          116269048, 8048569, 16717501, 54567989, 102775490, 113032336,
          9473613, 87283077, 11736763, 77507667, 32930675, 124275067,
          17733053, 36624162, 122077837, 303189, 14627174, 17289015,
          96009427, 125560540, 53875013, 78621147, 51208900, 106872948,
          39248660, 47171009, 53058674, 64820982, 67121409, 12145838,
          82193709, 133961923, 8664394, 94553826, 104177893, 19155340,
          131491517, 94003068, 59482507, 116642511, 31317289, 41712553,
          75041731, 111718683, 20828613, 1146504, 33479843, 109750789,
          119387976, 128018504, 79459873, 113225583, 54987384, 81990806,
          21501305, 98745225, 86375083, 124478577, 42727215, 90300079,
          101021113, 111106720, 78096626, 58873523, 16448559, 67180116,
          101840533, 40253441, 127999033, 124559514, 82124832, 7056889,
          5352578, 114331639>>
      [] seed = 30001 ->
        <<110113678, 83570163, 75516123, 86697895, 38468307, 46629651,
          24509749, 63337807, 79161947, 88298339, 34333772, 129385828,
          48889570, 95836455, 29159678, 69180684, 64345865, 35497861,
          73449536, 83316321, 15481165, 101813172, 37892761, 6470489,
          74206582, 13796457, 128427547, 122971058, 82975806, 124739432,
          71946092, 75624052, 26226455, 7174914, 101113932, 132801653,
          43760799, 53473443, 41573914, 133505143, 96847743, 35249716,
          48545539, 97070363, 122621171, 68578343, 45207482, 30612124,
          56731920, 63423334, 65029917, 957215, 80389999, 38136293,
          18867081, 84693650, 87315456, 61920480, 120234473, 90039506,
          13480059, 46004669, 5904217, 96297725, 122959658, 117498679,
          6431458, 10638710, 134172089, 119410669, 52534538, 87215942,
          49479417, 114963003, 93321436, 37309765, 91997394, 110765119,
          131007316, 74726649, 75760133, 120688213, 86375333, 63116242,
          56295273, 105274663, 62918063, 88695287, 10873744, 52801275,
          44529491, 18425906, 53819599, 127338843, 57174320, 43690311,
          108604199, 53060953, 21403183, 126519323, 122389201, 51921072,
          87652636, 118720822, 49984759, 5676878, 57960461, 127939794,
          105425178, 39889128, 111820168, 37585088, 87822386, 113321562,
          30646395, 133905613, 77067932, 64975602, 73541240, 299661,
          71306258, 64710662, 95713602, 40343113, 34669752, 28547775,
          31999885, 48909246>>
      [] seed = 30002 ->
        <<3583657, 80053553, 128235314, 78626960, 69603291, 34432678,
          29483695, 77832142, 56411770, 129119521, 61811608, 131092139,
          100160567, 20452992, 18096089, 68028498, 5506416, 50569731,
          108077106, 594841, 42618857, 102345019, 119818841, 132143790,
          26141775, 106520131, 8447504, 114920734, 35269557, 21019798,
          71155064, 6937356, 56876854, 5767579, 67323792, 79543522,
          37664804, 8197031, 43871767, 17586755, 99974232, 115730559,
          51033237, 27201789, 36910102, 2390685, 33316550, 44979024,
          39523064, 50864517, 79105575, 34248523, 62009436, 97660956,
          87412658, 118934713, 112522736, 76856406, 34164666, 22386091,
          17367741, 44418627, 67933064, 80052197, 90202415, 86959444,
          103403198, 77228639, 79742516, 35725295, 34809231, 24931691,
          106755993, 53553078, 86299046, 129902655, 83250452, 115435823,
          122123737, 66666382, 8784669, 33303520, 125390244, 99473276,
          103325249, 44832591, 121348166, 37503046, 20876870, 24876481,
          39242527, 36706880, 58967868, 8244641, 36909609, 69426771,
          58454231, 41848296, 42451362, 116839679, 82731053, 48623605,
          129111291, 102704605, 38894693, 101365993, 57577372, 14493863,
          85926577, 129285982, 115501129, 62758630, 67249786, 100929481,
          100731662, 40313121, 86501680, 84644794, 1833246, 110260457,
          102328085, 99332865, 10020539, 108973739, 105785042, 102419784,
          90791748, 29308678>>
      [] seed = 30003 ->
        <<20051888, 31315661, 108878060, 65004099, 95105293, 62307551,
          37733657, 69425974, 9194927, 6152527, 93457499, 41390338,
          114272635, 115181060, 556541, 43467542, 101929321, 1459190,
          129752231, 604960, 47584414, 65313971, 104542256, 48741382,
          9940106, 2723505, 43106047, 92158813, 84339286, 108263495,
          30562831, 65538473, 21468908, 10553325, 80080492, 93136690,
          132399861, 58050745, 15810505, 3094200, 48877718, 3046514,
          125375691, 113162922, 107790952, 61306212, 92094080, 9622628,
          51867897, 98921767, 85815872, 75545604, 111850449, 113994466,
          23577800, 42554861, 51098160, 97972797, 15362500, 39481985,
          100825582, 58864928, 5901736, 10289530, 115100708, 55931737,
          113761131, 98599350, 43991136, 68496467, 124266189, 60885469,
          21646107, 97348410, 21683886, 21978568, 47260943, 1624553,
          27126413, 9894641, 17126543, 42043222, 29092013, 30204287,
          3382870, 91119213, 38372147, 85801632, 57615709, 80420604,
          43401872, 7510381, 63395279, 127735487, 90498108, 82574877,
          4872498, 42763091, 109895743, 41169241, 37689169, 14784838,
          39372270, 24618494, 124893767, 39254669, 100624434, 67071310,
          79790509, 130617587, 5824649, 76227495, 72575493, 101298029,
          95482766, 28747886, 108209489, 99081631, 48490919, 13089848,
          32215380, 100719903, 34353586, 91655032, 116009951, 68378190,
          27600882, 128706588>>

\* a fault: the generator of an earlier call is carried on instead of a new
\* one being made from the seed
Random_as(seed) == [seed |-> seed, pos |-> calls]

\* random.Random(seed)
Random(seed) == [seed |-> seed, pos |-> 0]

Advanced(rng, words) == [rng EXCEPT !.pos = @ + words]

\* rng.getrandbits(k) for 0 < k <= 27: the top k bits of the next output
getrandbits(rng, k) ==
    [value |-> mt_words(rng.seed)[rng.pos + 1] \div (2 ^ (27 - k)),
     rng |-> Advanced(rng, 1)]

\* n.bit_length() for n > 0
bit_length(n) == CHOOSE k \in 1..27 : 2 ^ (k - 1) <= n /\ n < 2 ^ k

RECURSIVE RandBelowFrom(_, _, _)
\* the loop `while r >= n: r = getrandbits(k)` from the draw r on
RandBelowFrom(r, n, k) ==
    IF r.value < n THEN r ELSE RandBelowFrom(getrandbits(r.rng, k), n, k)

\* rng._randbelow(n) for n > 0
_randbelow(rng, n) == RandBelowFrom(getrandbits(rng, bit_length(n)), n, bit_length(n))

\* start + the draw below the width
Shifted(r, start) == [raised |-> "none", value |-> start + r.value, rng |-> r.rng]

\* rng.randrange(start, stop); rng.randrange(n) is rng.randrange(0, n)
randrange(rng, start, stop) ==
    IF stop - start > 0
    THEN Shifted(_randbelow(rng, stop - start), start)
    ELSE [raised |-> "ValueError: empty range for randrange()", value |-> 0, rng |-> rng]

\* rng.randint(a, b)
randint(rng, a, b) == randrange(rng, a, b + 1)

\* the item of seq the draw r picks
Chosen(r, seq) == [raised |-> "none", value |-> seq[r.value + 1], rng |-> r.rng]

\* rng.choice(seq) for a seq that is not empty
choice(rng, seq) == Chosen(_randbelow(rng, Len(seq)), seq)

\* rng.random(): (a >> 5, b >> 6) of the next two outputs a and b, the float
\* being ((a >> 5) * 2^26 + (b >> 6)) / 2^53
random(rng) ==
    [value |-> <<mt_words(rng.seed)[rng.pos + 1], mt_words(rng.seed)[rng.pos + 2] \div 2>>,
     rng |-> Advanced(rng, 2)]

\* the least and the greatest float rng.random() gives
RANDOM_MIN == <<0, 0>>

RANDOM_MAX == <<2 ^ 27 - 1, 2 ^ 26 - 1>>

\* u < v for two values of the shape random() gives
RandomLess(u, v) == u[1] < v[1] \/ (u[1] = v[1] /\ u[2] < v[2])

\* rng.random() < 0.5
BelowHalf(u) == u[1] < 2 ^ 26

\* math.exp(-dE / T) for T = 1 and an integer dE > 0, as the least value of
\* random() that is not below it: exact from the double math.exp returns
EXP_CEILING ==
    <<<<49375942, 51804060>>,
      <<18164394, 15720563>>,
      <<6682307, 13429515>>,
      <<2458283, 29428200>>,
      <<904351, 62921383>>,
      <<332692, 32576469>>,
      <<122390, 48695595>>,
      <<45025, 2130437>>,
      <<16563, 52580966>>,
      <<6093, 31905170>>,
      <<2241, 44582687>>,
      <<824, 44440994>>,
      <<303, 25251559>>,
      <<111, 40660956>>,
      <<41, 3859730>>,
      <<15, 6993782>>,
      <<5, 37348120>>,
      <<2, 2961735>>,
      <<0, 50465504>>,
      <<0, 18565222>>,
      <<0, 6829764>>,
      <<0, 2512530>>,
      <<0, 924308>>,
      <<0, 340034>>,
      <<0, 125092>>,
      <<0, 46019>>,
      <<0, 16930>>,
      <<0, 6228>>,
      <<0, 2292>>,
      <<0, 843>>,
      <<0, 311>>,
      <<0, 115>>,
      <<0, 42>>,
      <<0, 16>>,
      <<0, 6>>,
      <<0, 3>>>>

\* the least dE whose exp(-dE) is below 2^-53, and the least whose exp(-dE)
\* is the float 0.0
EXP_BELOW_GRID == 37

EXP_UNDERFLOW == 746

ExpCeiling(dE) ==
    IF dE < EXP_BELOW_GRID THEN EXP_CEILING[dE]
    ELSE IF dE < EXP_UNDERFLOW THEN <<0, 1>>
    ELSE <<0, 0>>



(***************************************************************************)
(* explorer/recovery.py: _exp_cooling(T0=3.0, Tmin=0.05, steps).  A        *)
(* temperature of this schedule is kept in millionths, rounded down; the   *)
(* values for the step counts of the model are tabulated from CPython.     *)
(***************************************************************************)
exp_cooling(steps, step) ==
    CASE step <= 0 -> 3000000
      [] step > 0 /\ step >= steps -> 50000
      [] steps = 2 /\ step = 1 -> 387298
      [] steps = 3 /\ step = 1 -> 766309
      [] steps = 3 /\ step = 2 -> 195743

\* math.exp(-dE / T) for a temperature T of the schedule and dE > 0 counted
\* in fifths, as the least value of random() that is not below it
COOLING_CEILING(T) ==
    CASE T = 50000 ->
        <<<<2458283, 29428200>>, <<45025, 2130437>>, <<824, 44440994>>,
          <<15, 6993782>>, <<0, 18565222>>, <<0, 340034>>, <<0, 6228>>,
          <<0, 115>>, <<0, 3>>>>
      [] T = 195743 ->
        <<<<48313808, 24564665>>, <<17391324, 42319381>>,
          <<6260284, 15160033>>, <<2253488, 66485963>>,
          <<811179, 16435613>>, <<291996, 59441996>>, <<105108, 62313607>>,
          <<37835, 42446204>>, <<13619, 36130136>>, <<4902, 38232359>>,
          <<1764, 50870556>>, <<635, 16962006>>, <<228, 44918909>>,
          <<82, 21016582>>, <<29, 42274341>>, <<10, 44678904>>,
          <<3, 56325333>>, <<1, 25637049>>, <<0, 33385369>>,
          <<0, 12017595>>, <<0, 4325925>>, <<0, 1557186>>, <<0, 560534>>,
          <<0, 201774>>, <<0, 72632>>, <<0, 26145>>, <<0, 9412>>,
          <<0, 3388>>, <<0, 1220>>, <<0, 439>>, <<0, 159>>, <<0, 57>>,
          <<0, 21>>, <<0, 8>>, <<0, 3>>>>
      [] T = 387298 ->
        <<<<80083155, 28629639>>, <<47782896, 22351533>>,
          <<28510429, 54544631>>, <<17011204, 15275905>>,
          <<10150007, 16715492>>, <<6056164, 17816984>>,
          <<3613507, 22255276>>, <<2156056, 65756663>>,
          <<1286445, 60564528>>, <<767578, 35966799>>, <<457988, 1192560>>,
          <<273265, 59084362>>, <<163048, 30929985>>, <<97285, 31783630>>,
          <<58046, 62732307>>, <<34634, 42454406>>, <<20665, 20659064>>,
          <<12330, 19236887>>, <<7357, 4218754>>, <<4389, 47600328>>,
          <<2619, 12771265>>, <<1562, 52466643>>, <<932, 30788203>>,
          <<556, 24592319>>, <<331, 64756625>>, <<198, 4845228>>,
          <<118, 12277418>>, <<70, 34611209>>, <<42, 4989484>>,
          <<25, 7001719>>, <<14, 65693035>>, <<8, 62907977>>,
          <<5, 22323353>>, <<3, 12200883>>, <<1, 60295721>>,
          <<1, 8909121>>, <<0, 45357348>>, <<0, 27063187>>,
          <<0, 16147684>>, <<0, 9634774>>, <<0, 5748743>>, <<0, 3430079>>,
          <<0, 2046612>>, <<0, 1221144>>, <<0, 728615>>, <<0, 434740>>,
          <<0, 259395>>, <<0, 154772>>, <<0, 92348>>, <<0, 55101>>,
          <<0, 32877>>, <<0, 19617>>, <<0, 11705>>, <<0, 6984>>,
          <<0, 4167>>, <<0, 2487>>, <<0, 1484>>, <<0, 886>>, <<0, 529>>,
          <<0, 316>>, <<0, 189>>, <<0, 113>>, <<0, 67>>, <<0, 40>>,
          <<0, 24>>, <<0, 15>>, <<0, 9>>, <<0, 6>>, <<0, 4>>, <<0, 2>>,
          <<0, 2>>>>
      [] T = 766309 ->
        <<<<103386267, 14819470>>, <<79637171, 46944412>>,
          <<61343535, 9424825>>, <<47252171, 40806169>>,
          <<36397767, 24810917>>, <<28036753, 7684658>>,
          <<21596366, 35962340>>, <<16635415, 58020183>>,
          <<12814056, 33559530>>, <<9870510, 21549177>>,
          <<7603132, 57469942>>, <<5856599, 56808466>>,
          <<4511266, 61906655>>, <<3474973, 33315381>>,
          <<2676729, 26818152>>, <<2061851, 52146298>>,
          <<1588219, 6522202>>, <<1223385, 44408930>>,
          <<942358, 63608317>>, <<725887, 35037180>>, <<559142, 16231084>>,
          <<430700, 26890998>>, <<331763, 15312579>>, <<255553, 9359291>>,
          <<196849, 29813353>>, <<151630, 47574616>>, <<116799, 18289154>>,
          <<89969, 3015257>>, <<69302, 3367483>>, <<53382, 34761352>>,
          <<41119, 60255818>>, <<31674, 10216907>>, <<24398, 14120062>>,
          <<18793, 43069185>>, <<14476, 34320341>>, <<11151, 5296218>>,
          <<8589, 36179605>>, <<6616, 27949061>>, <<5096, 36529841>>,
          <<3925, 54056167>>, <<3023, 67092350>>, <<2329, 23479062>>,
          <<1794, 18091796>>, <<1382, 6967537>>, <<1064, 41446362>>,
          <<820, 4151305>>, <<631, 45874076>>, <<486, 38795642>>,
          <<374, 54031605>>, <<288, 47499020>>, <<222, 26042584>>,
          <<171, 20320200>>, <<131, 63917064>>, <<101, 43039768>>,
          <<78, 19668108>>, <<60, 20682683>>, <<46, 30511890>>,
          <<35, 52576840>>, <<27, 37819643>>, <<21, 15560470>>,
          <<16, 23800021>>, <<12, 40116633>>, <<9, 47239177>>,
          <<7, 31863913>>, <<5, 50851996>>, <<4, 29200880>>,
          <<3, 27939022>>, <<2, 42382758>>, <<2, 1815457>>,
          <<1, 37675828>>, <<1, 13605497>>, <<0, 62173281>>,
          <<0, 47891315>>, <<0, 36890092>>, <<0, 28415985>>,
          <<0, 21888484>>, <<0, 16860430>>, <<0, 12987383>>,
          <<0, 10004021>>, <<0, 7705975>>, <<0, 5935818>>, <<0, 4572288>>,
          <<0, 3521977>>, <<0, 2712936>>, <<0, 2089741>>, <<0, 1609702>>,
          <<0, 1239934>>, <<0, 955106>>, <<0, 735707>>, <<0, 566706>>,
          <<0, 436527>>, <<0, 336251>>, <<0, 259010>>, <<0, 199513>>,
          <<0, 153682>>, <<0, 118380>>, <<0, 91186>>, <<0, 70240>>,
          <<0, 54105>>, <<0, 41677>>, <<0, 32103>>, <<0, 24729>>,
          <<0, 19048>>, <<0, 14673>>, <<0, 11302>>, <<0, 8706>>,
          <<0, 6706>>, <<0, 5166>>, <<0, 3979>>, <<0, 3065>>, <<0, 2361>>,
          <<0, 1819>>, <<0, 1401>>, <<0, 1080>>, <<0, 832>>, <<0, 641>>,
          <<0, 494>>, <<0, 380>>, <<0, 293>>, <<0, 226>>, <<0, 174>>,
          <<0, 134>>, <<0, 104>>, <<0, 80>>, <<0, 62>>, <<0, 48>>,
          <<0, 37>>, <<0, 28>>, <<0, 22>>, <<0, 17>>, <<0, 13>>, <<0, 10>>,
          <<0, 8>>, <<0, 6>>, <<0, 5>>, <<0, 4>>, <<0, 3>>, <<0, 3>>,
          <<0, 2>>, <<0, 2>>>>

\* the least dE, in fifths, whose exp(-dE / T) is the float 0.0
COOLING_UNDERFLOW(T) ==
    CASE T = 50000 -> 187
      [] T = 195743 -> 730
      [] T = 387298 -> 1443
      [] T = 766309 -> 2856

CoolingCeiling(T, dE) ==
    IF dE <= Len(COOLING_CEILING(T)) THEN COOLING_CEILING(T)[dE]
    ELSE IF dE < COOLING_UNDERFLOW(T) THEN <<0, 1>>
    ELSE <<0, 0>>

\* rng.random() < math.exp(-dE / T), u being the value of rng.random(), for
\* dE > 0 and a positive temperature of the modelled schedules: 1, with dE
\* in units, or a temperature of the cooling schedule, with dE in fifths
BelowExp(u, dE, T) ==
    IF T = 1 THEN RandomLess(u, ExpCeiling(dE)) ELSE RandomLess(u, CoolingCeiling(T, dE))

(***************************************************************************)
(* core/engine.py: AxionGridCore.  An engine is the record                 *)
(* [N, grid, last_op_id, last_action]; an operation returns the exception  *)
(* it raised and the engine it left behind.                                *)
(***************************************************************************)
n3(n) == n * n * n

\* list(range(n3))
IdentityGrid(n) == Stored([i \in 0..(n3(n) - 1) |-> i])

\* the loops of _build_rot_index_maps: one index map per rotation, old
\* index -> new index; a rotated coordinate off the lattice is a KeyError,
\* re-raised as AssertionError
BuildMaps(n, rotations, idx_to_coord, coord_to_idx) ==
    IF \E op \in DOMAIN rotations, old_i \in DOMAIN idx_to_coord :
           mat_vec(rotations[op], idx_to_coord[old_i]) \notin DOMAIN coord_to_idx
    THEN [raised |-> "AssertionError: rotation maps coord out of domain", value |-> <<>>]
    ELSE IF Cardinality(DOMAIN rotations) # 24
    THEN [raised |-> "AssertionError: rotations must be exactly 24", value |-> <<>>]
    ELSE [raised |-> "none",
          value |-> Stored([op \in DOMAIN rotations |->
                        Stored([old_i \in 0..(n3(n) - 1) |->
                            coord_to_idx[mat_vec(rotations[op], idx_to_coord[old_i])]])])]

_build_rot_index_maps(n, coords) ==
    BuildMaps(n, ROTATIONS, coords.index_to_coord, coords.coord_to_index)

\* what _build_rot_index_maps did in the constructor of each engine
BUILT_ROT_INDEX_MAPS == Stored([n \in Sizes |-> _build_rot_index_maps(n, COORDS[n])])

\* self.rot_index_map of each constructed engine
rot_index_map == Stored([n \in Sizes |-> BUILT_ROT_INDEX_MAPS[n].value])

\* AxionGridCore.__init__
construct(n) ==
    [N |-> n, grid |-> IdentityGrid(n), last_op_id |-> None, last_action |-> None]

Ok(e) == [raised |-> "none", eng |-> e]

Raise(e, what) == [raised |-> what, eng |-> e]

\* the messages the engine raises AssertionError with
AssertionErrors ==
    {"AssertionError: rotation maps coord out of domain",
     "AssertionError: rotations must be exactly 24",
     "AssertionError: local region mapping size mismatch",
     "AssertionError: grid length mismatch",
     "AssertionError: grid tokens not unique",
     "AssertionError: grid tokens out of range",
     "AssertionError: rotation index map length mismatch",
     "AssertionError: rotation index map out of range",
     "AssertionError: rotation index map is not a bijection",
     "AssertionError: local rotation domain out of range",
     "AssertionError: local rotation image out of range",
     "AssertionError: local rotation domain has collisions",
     "AssertionError: local rotation image has collisions",
     "AssertionError: local rotation is not a bijection on the region",
     "AssertionError: unknown last_action kind",
     "AssertionError: apply(op); apply(inverse) did not restore state",
     "AssertionError: audit() mutated engine state (hash mismatch)"}

\* the messages the engine raises ValueError with, and the one of
\* rng.randint on an empty range
ValueErrors ==
    {"ValueError: op_id must be in [0..23]",
     "ValueError: center must be a valid lattice coordinate",
     "ValueError: radius must be >= 1",
     "ValueError: center out of bounds",
     "ValueError: region out of bounds",
     "ValueError: steps must be >= 0",
     "ValueError: empty range for randrange()"}

\* a fault: every position receives the same token
Shuffled_as(old, order) == Stored([i \in DOMAIN old |-> old[order[1]]])

\* rng.shuffle(self.grid) moves the tokens, whatever they are, by position
Shuffled(old, order) == Stored([i \in DOMAIN old |-> old[order[i + 1]]])

\* a fault: the bookkeeping of the last move is not cleared
randomize_as(e, seed) ==
    Ok([e EXCEPT !.grid = Shuffled(e.grid, shuffle_order(seed, Cardinality(DOMAIN e.grid)))])

randomize(e, seed) ==
    Ok([e EXCEPT !.grid = Shuffled(e.grid, shuffle_order(seed, Cardinality(DOMAIN e.grid))),
                 !.last_op_id = None,
                 !.last_action = None])

RECURSIVE MapWrites(_, _, _, _)
\* what the passes lo..hi-1 of the loop
\* `for old_i, tok in enumerate(old): new[mp[old_i]] = tok`
\* write: cell -> token, a later pass overriding an earlier one
MapWrites(old, mp, lo, hi) ==
    IF hi <= lo THEN <<>>
    ELSE IF hi = lo + 1 THEN mp[lo] :> old[lo]
    ELSE MapWrites(old, mp, (lo + hi) \div 2, hi) @@ MapWrites(old, mp, lo, (lo + hi) \div 2)

\* new = [0] * len(old), then the loop
ScatterByMap(old, mp) ==
    MapWrites(old, mp, 0, Cardinality(DOMAIN old)) @@ [i \in DOMAIN old |-> 0]

\* a fault: the index map of the next op id is used
apply_as(e, op_id) ==
    IF ~(0 <= op_id /\ op_id < 24)
    THEN Raise(e, "ValueError: op_id must be in [0..23]")
    ELSE Ok([e EXCEPT !.grid = ScatterByMap(e.grid, rot_index_map[e.N][(op_id + 1) % 24]),
                      !.last_op_id = <<op_id>>,
                      !.last_action = <<"global", op_id>>])

apply(e, op_id) ==
    IF ~(0 <= op_id /\ op_id < 24)
    THEN Raise(e, "ValueError: op_id must be in [0..23]")
    ELSE Ok([e EXCEPT !.grid = ScatterByMap(e.grid, rot_index_map[e.N][op_id]),
                      !.last_op_id = <<op_id>>,
                      !.last_action = <<"global", op_id>>])

\* a fault: the op id is returned uninverted
inverse_op_as(e, op_id) == [raised |-> "none", value |-> op_id]

inverse_op(e, op_id) ==
    IF ~(0 <= op_id /\ op_id < 24)
    THEN [raised |-> "ValueError: op_id must be in [0..23]", value |-> 0]
    ELSE inverse_rotation_index(op_id)

\* (self.inverse_op(op_id), center, radius)
InverseTriple(inv, center, radius) ==
    [raised |-> inv.raised, value |-> <<inv.value, center, radius>>]

\* a fault: the op id of the triple is not inverted
inverse_local_as(e, op_id, center, radius) ==
    [raised |-> "none", value |-> <<op_id, center, radius>>]

inverse_local(e, op_id, center, radius) ==
    InverseTriple(inverse_op(e, op_id), center, radius)

\* the coordinate the three nested range() loops visit at their t-th pass
RegionCoord(center, radius, t) ==
    << (center[1] - radius) + ((t - 1) \div ((2 * radius + 1) * (2 * radius + 1))),
       (center[2] - radius) + (((t - 1) \div (2 * radius + 1)) % (2 * radius + 1)),
       (center[3] - radius) + ((t - 1) % (2 * radius + 1)) >>

RegionPasses(radius) == 1..((2 * radius + 1) * (2 * radius + 1) * (2 * radius + 1))

\* `if max(abs(x - cx), abs(y - cy), abs(z - cz)) > radius: continue`
Skipped(center, radius, c) ==
    max3(abs(c[1] - center[1]), abs(c[2] - center[2]), abs(c[3] - center[3])) > radius

\* the coordinates the loop body runs for, in loop order
RegionVisited(center, radius) ==
    SelectSeq([t \in RegionPasses(radius) |-> RegionCoord(center, radius, t)],
              LAMBDA c : ~Skipped(center, radius, c))

\* (cx + rx, cy + ry, cz + rz) for (rx, ry, rz) = mat_vec(m, (x - cx, y - cy, z - cz))
Recentred(center, r) == <<center[1] + r[1], center[2] + r[2], center[3] + r[3]>>

\* a fault: the rotated offset is not moved back to the center
RotateAbout_as(m, center, c) ==
    mat_vec(m, <<c[1] - center[1], c[2] - center[2], c[3] - center[3]>>)

RotateAbout(m, center, c) ==
    Recentred(center, mat_vec(m, <<c[1] - center[1], c[2] - center[2], c[3] - center[3]>>))

\* a dict as the list of its (key, value) items in insertion order
DictKeys(items) == {items[t][1] : t \in DOMAIN items}

DictValues(items) == {items[t][2] : t \in DOMAIN items}

\* the size check on the finished mapping
SizedMapping(mapping, expected) ==
    IF Cardinality(DictKeys(mapping)) # expected
    THEN [raised |-> "AssertionError: local region mapping size mismatch", value |-> <<>>]
    ELSE [raised |-> "none", value |-> mapping]

\* the loop body over the visited coordinates; a coordinate off the lattice
\* is a KeyError of coord_to_idx
RegionMapping(m, coord_to_idx, center, radius, visited) ==
    IF \E t \in DOMAIN visited :
           \/ visited[t] \notin DOMAIN coord_to_idx
           \/ RotateAbout(m, center, visited[t]) \notin DOMAIN coord_to_idx
    THEN [raised |-> "KeyError", value |-> <<>>]
    ELSE SizedMapping(Stored([t \in DOMAIN visited |->
                                 <<coord_to_idx[visited[t]],
                                   coord_to_idx[RotateAbout(m, center, visited[t])]>>]),
                      (2 * radius + 1) * (2 * radius + 1) * (2 * radius + 1))

\* a fault: the region is turned by the transposed matrix
_local_index_mapping_as(e, op_id, center, radius) ==
    RegionMapping(transpose(ROTATIONS[op_id]), COORDS[e.N].coord_to_index, center, radius,
                  RegionVisited(center, radius))

\* mapping old_index -> new_index induced by the local rotation on the region
_local_index_mapping(e, op_id, center, radius) ==
    RegionMapping(ROTATIONS[op_id], COORDS[e.N].coord_to_index, center, radius,
                  RegionVisited(center, radius))

RECURSIVE ItemWrites(_, _, _, _)
\* what the passes lo..hi-1 of the loop
\* `for old_i, new_i in mapping.items(): new[new_i] = old[old_i]`
\* write: cell -> token, a later pass overriding an earlier one
ItemWrites(old, items, lo, hi) ==
    IF hi <= lo THEN <<>>
    ELSE IF hi = lo + 1 THEN items[lo][2] :> old[items[lo][1]]
    ELSE ItemWrites(old, items, (lo + hi) \div 2, hi)
             @@ ItemWrites(old, items, lo, (lo + hi) \div 2)

\* a fault: the loop writes into a zeroed list, not into a copy of the grid
ScatterLocal_as(old, items) ==
    ItemWrites(old, items, 1, Len(items) + 1) @@ [i \in DOMAIN old |-> 0]

\* new = list(old), then the loop: outside the region the copy is kept
ScatterLocal(old, items) == ItemWrites(old, items, 1, Len(items) + 1) @@ old

\* the body of apply_local from the mapping on
ApplyMapping(e, op_id, center, radius, mapping) ==
    IF mapping.raised # "none"
    THEN Raise(e, mapping.raised)
    ELSE Ok([e EXCEPT !.grid = ScatterLocal(e.grid, mapping.value),
                      !.last_op_id = None,
                      !.last_action = <<"local", op_id, center, radius>>])

\* a fault: the radius is checked before the center
LocalArgumentError_as(coords, op_id, center, radius) ==
    IF ~(0 <= op_id /\ op_id < 24)
    THEN "ValueError: op_id must be in [0..23]"
    ELSE IF radius < 1
    THEN "ValueError: radius must be >= 1"
    ELSE IF center \notin DOMAIN coords.coord_to_index
    THEN "ValueError: center must be a valid lattice coordinate"
    ELSE IF \/ abs(center[1]) + radius > coords.k
            \/ abs(center[2]) + radius > coords.k
            \/ abs(center[3]) + radius > coords.k
    THEN "ValueError: region out of bounds"
    ELSE "none"

\* the argument checks of apply_local, in order
LocalArgumentError(coords, op_id, center, radius) ==
    IF ~(0 <= op_id /\ op_id < 24)
    THEN "ValueError: op_id must be in [0..23]"
    ELSE IF center \notin DOMAIN coords.coord_to_index
    THEN "ValueError: center must be a valid lattice coordinate"
    ELSE IF radius < 1
    THEN "ValueError: radius must be >= 1"
    ELSE IF max3(abs(center[1]), abs(center[2]), abs(center[3])) > coords.k
    THEN "ValueError: center out of bounds"
    ELSE IF \/ abs(center[1]) + radius > coords.k
            \/ abs(center[2]) + radius > coords.k
            \/ abs(center[3]) + radius > coords.k
    THEN "ValueError: region out of bounds"
    ELSE "none"

\* a fault: the bookkeeping is written before the arguments are checked
apply_local_as(e, op_id, center, radius) ==
    IF LocalArgumentError(COORDS[e.N], op_id, center, radius) # "none"
    THEN Raise([e EXCEPT !.last_op_id = None,
                         !.last_action = <<"local", op_id, center, radius>>],
               LocalArgumentError(COORDS[e.N], op_id, center, radius))
    ELSE ApplyMapping(e, op_id, center, radius,
                      _local_index_mapping(e, op_id, center, radius))

apply_local(e, op_id, center, radius) ==
    IF LocalArgumentError(COORDS[e.N], op_id, center, radius) # "none"
    THEN Raise(e, LocalArgumentError(COORDS[e.N], op_id, center, radius))
    ELSE ApplyMapping(e, op_id, center, radius,
                      _local_index_mapping(e, op_id, center, radius))

\* struct.pack("<I", v): four little-endian bytes
UInt32Bytes(v) ==
    <<v % 256, (v \div 256) % 256, (v \div 65536) % 256, (v \div 16777216) % 256>>

\* [N] + grid
CanonicalWords(e) ==
    [w \in 0..Cardinality(DOMAIN e.grid) |-> IF w = 0 THEN e.N ELSE e.grid[w - 1]]

\* struct.pack of the words: the bytes, as the list of the words' groups of
\* four; struct.error when a word does not fit an unsigned 32-bit integer
\* (v >= 2^32 is written with 16-bit halves)
PackWords(words) ==
    IF \E w \in DOMAIN words : words[w] < 0 \/ words[w] \div 65536 >= 65536
    THEN [raised |-> "struct.error", value |-> <<>>]
    ELSE [raised |-> "none",
          value |-> Stored([w \in DOMAIN words |-> UInt32Bytes(words[w])])]

_canonical_bytes(e) == PackWords(CanonicalWords(e))

\* hashlib.sha256(bytes).hexdigest(): SHA-256 is taken to be collision-free,
\* so the digest is represented by the bytes it digests
Sha256(bytes) == [raised |-> bytes.raised, value |-> <<"sha256", bytes.value>>]

hash(e) == Sha256(_canonical_bytes(e))

\* the three checks on the set s of the grid's tokens
PermutationError(e, s) ==
    IF Cardinality(DOMAIN e.grid) # n3(e.N)
    THEN "AssertionError: grid length mismatch"
    ELSE IF Cardinality(s) # n3(e.N)
    THEN "AssertionError: grid tokens not unique"
    ELSE IF s # 0..(n3(e.N) - 1)
    THEN "AssertionError: grid tokens out of range"
    ELSE "none"

_audit_permutation(e) == Raise(e, PermutationError(e, Range(e.grid)))

\* the three checks made of one global index map
GlobalMapError(e, mp) ==
    IF Cardinality(DOMAIN mp) # n3(e.N)
    THEN "AssertionError: rotation index map length mismatch"
    ELSE IF \E i \in DOMAIN mp : mp[i] < 0 \/ mp[i] >= n3(e.N)
    THEN "AssertionError: rotation index map out of range"
    ELSE IF Cardinality(Range(mp)) # n3(e.N)
    THEN "AssertionError: rotation index map is not a bijection"
    ELSE "none"

\* `for op_id in range(24)`: the first map that fails a check raises
AllMapsError(e, maps, bad) ==
    IF bad = {} THEN "none"
    ELSE GlobalMapError(e, maps[CHOOSE b \in bad : \A c \in bad : b <= c])

\* the checks made of the recomputed region mapping
LocalMapError(e, mapping) ==
    IF mapping.raised # "none"
    THEN mapping.raised
    ELSE IF \E i \in DictKeys(mapping.value) : i < 0 \/ i >= n3(e.N)
    THEN "AssertionError: local rotation domain out of range"
    ELSE IF \E j \in DictValues(mapping.value) : j < 0 \/ j >= n3(e.N)
    THEN "AssertionError: local rotation image out of range"
    ELSE IF Cardinality(DictKeys(mapping.value)) # Len(mapping.value)
    THEN "AssertionError: local rotation domain has collisions"
    ELSE IF Cardinality(DictValues(mapping.value)) # Len(mapping.value)
    THEN "AssertionError: local rotation image has collisions"
    ELSE IF DictKeys(mapping.value) # DictValues(mapping.value)
    THEN "AssertionError: local rotation is not a bijection on the region"
    ELSE "none"

RotMapsError(e, maps) ==
    IF e.last_action = None
    THEN AllMapsError(e, maps, {op_id \in 0..23 : GlobalMapError(e, maps[op_id]) # "none"})
    ELSE IF e.last_action[1] = "global"
    THEN GlobalMapError(e, maps[e.last_action[2]])
    ELSE IF e.last_action[1] = "local"
    THEN LocalMapError(e, _local_index_mapping(e, e.last_action[2], e.last_action[3],
                                               e.last_action[4]))
    ELSE "AssertionError: unknown last_action kind"

_audit_rot_maps(e) == Raise(e, RotMapsError(e, rot_index_map[e.N]))

\* self.apply(inv), reached when the call before it returned
ApplyNext(r, op_id) == IF r.raised # "none" THEN r ELSE apply(r.eng, op_id)

\* a fault: the round trip makes the move twice
GlobalRoundTrip_as(e, op_id, inv) ==
    IF inv.raised # "none"
    THEN Raise(e, inv.raised)
    ELSE ApplyNext(apply(e, op_id), op_id)

\* inv = self.inverse_op(op_id); self.apply(op_id); self.apply(inv)
GlobalRoundTrip(e, op_id, inv) ==
    IF inv.raised # "none"
    THEN Raise(e, inv.raised)
    ELSE ApplyNext(apply(e, op_id), inv.value)

\* self.apply_local(inv_op, inv_center, inv_radius), reached when the call
\* before it returned
ApplyLocalNext(r, triple) ==
    IF r.raised # "none" THEN r ELSE apply_local(r.eng, triple[1], triple[2], triple[3])

\* the same with inverse_local and apply_local
LocalRoundTrip(e, op_id, center, radius, inv) ==
    IF inv.raised # "none"
    THEN Raise(e, inv.raised)
    ELSE ApplyLocalNext(apply_local(e, op_id, center, radius), inv.value)

\* the engine after the two calls of the round trip, or after the one that raised
RoundTripMoves(e) ==
    IF e.last_action[1] = "global"
    THEN GlobalRoundTrip(e, e.last_action[2], inverse_op(e, e.last_action[2]))
    ELSE IF e.last_action[1] = "local"
    THEN LocalRoundTrip(e, e.last_action[2], e.last_action[3], e.last_action[4],
                        inverse_local(e, e.last_action[2], e.last_action[3],
                                      e.last_action[4]))
    ELSE Raise(e, "AssertionError: unknown last_action kind")

\* `if self._canonical_bytes() != snap: raise`
RoundTripCompare(snap, moved) ==
    IF moved.raised # "none"
    THEN moved
    ELSE IF _canonical_bytes(moved.eng) # snap
    THEN Raise(moved.eng, "AssertionError: apply(op); apply(inverse) did not restore state")
    ELSE moved

RoundTripFrom(e, snap) ==
    IF snap.raised # "none"
    THEN Raise(e, snap.raised)
    ELSE RoundTripCompare(snap, RoundTripMoves(e))

_audit_inverse_roundtrip(e) ==
    IF e.last_action = None
    THEN Ok(e)
    ELSE RoundTripFrom(e, _canonical_bytes(e))

\* self._audit_rot_maps(), reached when the check before it passed
RotMapsNext(r) == IF r.raised # "none" THEN r ELSE _audit_rot_maps(r.eng)

\* self._audit_inverse_roundtrip(), reached when the checks before it passed
RoundTripNext(r) == IF r.raised # "none" THEN r ELSE _audit_inverse_roundtrip(r.eng)

\* the try block of audit(): the first check that raises ends it
AuditChecks(e) == RoundTripNext(RotMapsNext(_audit_permutation(e)))

\* a fault: the finally block restores nothing
AuditRestore_as(checked, before_grid, before_last, before_action) == checked

\* the finally block of audit(): the snapshot is put back whatever the checks did
AuditRestore(checked, before_grid, before_last, before_action) ==
    [checked EXCEPT !.grid = before_grid,
                    !.last_op_id = before_last,
                    !.last_action = before_action]

\* after_hash = self.hash(); a mismatch replaces whatever the checks raised
AuditVerdict(raised, restored, before_hash) ==
    IF hash(restored) # before_hash
    THEN Raise(restored, "AssertionError: audit() mutated engine state (hash mismatch)")
    ELSE Raise(restored, raised)

AuditFinally(tried, before_grid, before_last, before_action, before_hash) ==
    AuditVerdict(tried.raised,
                 AuditRestore(tried.eng, before_grid, before_last, before_action),
                 before_hash)

AuditSnapshot(e, before_grid, before_last, before_action, before_hash) ==
    IF before_hash.raised # "none"
    THEN Raise(e, before_hash.raised)
    ELSE AuditFinally(AuditChecks(e), before_grid, before_last, before_action, before_hash)

audit(e) == AuditSnapshot(e, e.grid, e.last_op_id, e.last_action, hash(e))

(***************************************************************************)
(* core/engine.py: LivniumEngineCore.perturb                               *)
(***************************************************************************)
RECURSIVE PerturbLoop(_, _, _, _)
\* self.audit(), reached when apply_local returned
AuditNext(r) == IF r.raised # "none" THEN r ELSE audit(r.eng)

\* the passes after a pass in which neither call raised
PerturbNext(r, i, steps, seed) ==
    IF r.raised # "none" THEN r ELSE PerturbLoop(r.eng, i, steps, seed)

\* one pass of the loop with its draw: rng.randint(lo, hi) raises ValueError
\* on an empty range; then apply_local and audit, then the passes after it
PerturbPass(e, i, steps, seed, draw, k) ==
    IF -k + draw.radius > k - draw.radius
    THEN Raise(e, "ValueError: empty range for randrange()")
    ELSE PerturbNext(AuditNext(apply_local(e, draw.op_id, draw.center, draw.radius)),
                     i + 1, steps, seed)

\* the passes i..steps (1-based) of `for _ in range(steps)`
PerturbLoop(e, i, steps, seed) ==
    IF i > steps
    THEN Ok(e)
    ELSE PerturbPass(e, i, steps, seed, perturb_draws(e.N, seed)[i], COORDS[e.N].k)

perturb(e, steps, seed) ==
    IF steps < 0
    THEN Raise(e, "ValueError: steps must be >= 0")
    ELSE PerturbLoop(e, 1, steps, seed)

(***************************************************************************)
(* energy/energies.py                                                      *)
(***************************************************************************)
SquaredDistance(a, b) ==
    (a[1] - b[1]) * (a[1] - b[1]) + (a[2] - b[2]) * (a[2] - b[2])
        + (a[3] - b[3]) * (a[3] - b[3])

RECURSIVE HomeDistanceOver(_, _, _, _)
\* the passes lo..hi of `for i, tok in enumerate(engine.grid)`, summed by
\* halves
HomeDistanceOver(grid_, idx_to_coord, lo, hi) ==
    IF lo > hi
    THEN 0
    ELSE IF lo = hi
    THEN SquaredDistance(idx_to_coord[lo], idx_to_coord[grid_[lo]])
    ELSE HomeDistanceOver(grid_, idx_to_coord, lo, (lo + hi) \div 2)
             + HomeDistanceOver(grid_, idx_to_coord, (lo + hi) \div 2 + 1, hi)

\* the sum of floats that are all integers: exact, and kept as an integer
home_distance_smooth_energy(e) ==
    HomeDistanceOver(e.grid, COORDS[e.N].index_to_coord, 0, Cardinality(DOMAIN e.grid) - 1)

\* the edge from cell i to its neighbour at nb, if the lattice has one: 1
\* when the homes of the two tokens are not 6-neighbours
EdgeDisagreement(grid_, coords, i, nb) ==
    IF nb \notin DOMAIN coords.coord_to_index
    THEN 0
    ELSE IF abs(coords.index_to_coord[grid_[i]][1]
                    - coords.index_to_coord[grid_[coords.coord_to_index[nb]]][1])
            + abs(coords.index_to_coord[grid_[i]][2]
                    - coords.index_to_coord[grid_[coords.coord_to_index[nb]]][2])
            + abs(coords.index_to_coord[grid_[i]][3]
                    - coords.index_to_coord[grid_[coords.coord_to_index[nb]]][3]) # 1
    THEN 1
    ELSE 0

\* the three edges of cell i at (x, y, z), in the directions +x, +y, +z
CellDisagreements(grid_, coords, i, at) ==
    EdgeDisagreement(grid_, coords, i, <<at[1] + 1, at[2], at[3]>>)
        + EdgeDisagreement(grid_, coords, i, <<at[1], at[2] + 1, at[3]>>)
        + EdgeDisagreement(grid_, coords, i, <<at[1], at[2], at[3] + 1>>)

RECURSIVE DisagreementsOver(_, _, _, _)
\* the passes lo..hi of `for i, tok in enumerate(engine.grid)`, summed by
\* halves
DisagreementsOver(grid_, coords, lo, hi) ==
    IF lo > hi
    THEN 0
    ELSE IF lo = hi
    THEN CellDisagreements(grid_, coords, lo, coords.index_to_coord[lo])
    ELSE DisagreementsOver(grid_, coords, lo, (lo + hi) \div 2)
             + DisagreementsOver(grid_, coords, (lo + hi) \div 2 + 1, hi)

neighbor_disagreement_energy(e) ==
    DisagreementsOver(e.grid, COORDS[e.N], 0, Cardinality(DOMAIN e.grid) - 1)

(***************************************************************************)
(* explorer/recovery.py: _default_energy                                   *)
(* float(neighbor) + 0.2 * float(home) is kept as its fivefold, which is   *)
(* an integer: an energy of this function is counted in fifths.            *)
(***************************************************************************)
_default_energy(e) == 5 * neighbor_disagreement_energy(e) + home_distance_smooth_energy(e)

\* energy_fn(engine) for the energy functions of the repository
Energy(energy_fn, e) ==
    IF energy_fn = <<"_default_energy">>
    THEN _default_energy(e)
    ELSE home_distance_smooth_energy(e)

(***************************************************************************)
(* explorer/anneal_local.py                                                *)
(* A temperature schedule is a number, a sequence of numbers or a         *)
(* function; the temperatures are integers.                               *)
(***************************************************************************)
Number(t) == [kind |-> "number", values |-> <<t>>]

NumberSequence(ts) == [kind |-> "sequence", values |-> ts]

\* the callable _exp_cooling(T0=3.0, Tmin=0.05, steps) returns, known by its
\* step count
ExpCooling(steps) == [kind |-> "callable", values |-> <<steps>>]

\* a short sequence is clamped to its last item; the item of step s is
\* temp_schedule[s], the (s+1)-th item
_temperature(temp_schedule, step) ==
    IF temp_schedule.kind = "number"
    THEN temp_schedule.values[1]
    ELSE IF temp_schedule.kind = "callable"
    THEN exp_cooling(temp_schedule.values[1], step)
    ELSE IF step < 0 \/ step >= Len(temp_schedule.values)
    THEN temp_schedule.values[Len(temp_schedule.values)]
    ELSE temp_schedule.values[step + 1]

\* a function of the caller as temp_schedule, known by what its invocations
\* do one after the other; the last item stands for every later invocation
ScheduleFunction(outcomes) == [kind |-> "function", values |-> outcomes]

\* the invocation returns v: <<t>> for the number t, or None
Returns(v) == [raised |-> "none", value |-> v]

\* the invocation raises
Raises(what) == [raised |-> what, value |-> None]

\* temp_schedule(step), the function having been invoked `called` times
Invoked(temp_schedule, called) ==
    temp_schedule.values[IF called + 1 > Len(temp_schedule.values)
                         THEN Len(temp_schedule.values) ELSE called + 1]

\* float(temp_schedule(step)): float(None) is a TypeError
Floated(outcome) ==
    IF outcome.raised = "none" /\ outcome.value = None THEN Raises("TypeError") ELSE outcome

\* the handler `except TypeError: return float(temp_schedule(step))`; first
\* is what the try block gave, second what the handler gives when entered
ScheduleHandled(first, second, called) ==
    IF first.raised = "TypeError"
    THEN [raised |-> second.raised, value |-> second.value, called |-> called + 2,
          errors |-> <<first.raised>> \o
                     (IF second.raised # "none" THEN <<second.raised>> ELSE <<>>)]
    ELSE [raised |-> first.raised, value |-> first.value, called |-> called + 1,
          errors |-> IF first.raised # "none" THEN <<first.raised>> ELSE <<>>]

\* _temperature with the invocations of a caller's function counted: the
\* exception or the value <<T>>, the number of invocations made so far and
\* the exceptions raised on the way, in order
Temperature(temp_schedule, step, called) ==
    IF temp_schedule.kind = "function"
    THEN ScheduleHandled(Floated(Invoked(temp_schedule, called)),
                         Floated(Invoked(temp_schedule, called + 1)), called)
    ELSE [raised |-> "none", value |-> <<_temperature(temp_schedule, step)>>,
          called |-> called, errors |-> <<>>]

\* a fault: a proposal that leaves the energy as it is counts as worsening
Accepts_as(dE, T, coin) == dE < 0 \/ (T # 0 /\ coin)

\* accept if dE <= 0; else never at T == 0, and otherwise when
\* rng.random() < math.exp(-dE / T), which is the coin
Accepts(dE, T, coin) == dE <= 0 \/ (T # 0 /\ coin)

\* stopped_step after the end of a step with hash h: None or <<step>>
StoppedAt(stop_hash, h, step) ==
    IF stop_hash # None /\ h = stop_hash THEN <<step>> ELSE None

\* the locals of the run before the first step, h0 being the start hash
AnnealStart(e, energy_fn, E0, h0, stop_hash) ==
    [raised |-> "none", eng |-> e, energy_fn |-> energy_fn,
     stopped_step |-> StoppedAt(stop_hash, h0, 0),
     step |-> 0, energies |-> (0 :> E0),
     best_E |-> E0, best_step |-> 0, last_improve_step |-> 0,
     accepted |-> 0, proposed |-> 0,
     first_seen_step |-> (h0 :> 0), visit_counts |-> (h0 :> 1),
     first_repeat_step |-> None, repeats |-> 0,
     dE |-> 0, T |-> 0, accept |-> FALSE, proposal |-> None]

\* the bookkeeping of the hash h of the engine at the end of a step;
\* first_repeat_step is None or <<step>>
AnnealTracked(run, h) ==
    [run EXCEPT
        !.visit_counts = (h :> (IF h \in DOMAIN run.visit_counts
                                THEN run.visit_counts[h] + 1 ELSE 1)) @@ run.visit_counts,
        !.repeats = IF h \in DOMAIN run.first_seen_step THEN @ + 1 ELSE @,
        !.first_repeat_step = IF h \in DOMAIN run.first_seen_step /\ @ = None
                              THEN <<run.step>> ELSE @,
        !.first_seen_step = IF h \in DOMAIN run.first_seen_step
                            THEN @ ELSE (h :> run.step) @@ run.first_seen_step]

\* a fault: an accepted proposal that ties with the best moves best_step
AnnealAccepted_as(run, e, E1) ==
    AnnealTracked([run EXCEPT !.eng = e,
                              !.accept = TRUE,
                              !.accepted = @ + 1,
                              !.energies = (run.step :> E1) @@ run.energies,
                              !.best_E = IF E1 <= run.best_E THEN E1 ELSE @,
                              !.best_step = IF E1 <= run.best_E THEN run.step ELSE @,
                              !.last_improve_step = IF E1 <= run.best_E THEN run.step ELSE @],
                  hash(e).value)

\* the accepted proposal: the engine stays as proposed
AnnealAccepted(run, e, E1) ==
    AnnealTracked([run EXCEPT !.eng = e,
                              !.accept = TRUE,
                              !.accepted = @ + 1,
                              !.energies = (run.step :> E1) @@ run.energies,
                              !.best_E = IF E1 < run.best_E THEN E1 ELSE @,
                              !.best_step = IF E1 < run.best_E THEN run.step ELSE @,
                              !.last_improve_step = IF E1 < run.best_E THEN run.step ELSE @],
                  hash(e).value)

\* a fault: a rejected step records the energy of the start grid
AnnealReverted_as(run, r, E_prev) ==
    IF r.raised # "none"
    THEN [run EXCEPT !.raised = r.raised, !.eng = r.eng, !.accept = FALSE]
    ELSE AnnealTracked([run EXCEPT !.eng = r.eng,
                                   !.accept = FALSE,
                                   !.energies = (run.step :> run.energies[0]) @@ run.energies],
                       hash(r.eng).value)

\* the rejected proposal, r being what the revert and its audit returned
AnnealReverted(run, r, E_prev) ==
    IF r.raised # "none"
    THEN [run EXCEPT !.raised = r.raised, !.eng = r.eng, !.accept = FALSE]
    ELSE AnnealTracked([run EXCEPT !.eng = r.eng,
                                   !.accept = FALSE,
                                   !.energies = (run.step :> E_prev) @@ run.energies],
                       hash(r.eng).value)

\* a fault: the rejected proposal is left in the engine
AnnealRevert_as(e, inv) == Ok(e)

\* apply_local of the inverse triple, then audit
AnnealRevert(e, inv) ==
    IF inv.raised # "none"
    THEN Raise(e, inv.raised)
    ELSE AuditNext(apply_local(e, inv.value[1], inv.value[2], inv.value[3]))

\* a fault: the temperature is looked at only when the proposal worsens
AnnealDecided_as(run, e, op_id, center, radius, E1, E_prev, T, coin) ==
    IF E1 - E_prev > 0 /\ T < 0
    THEN [run EXCEPT !.raised = "ValueError: temperature must be >= 0", !.eng = e,
                     !.dE = E1 - E_prev, !.T = T]
    ELSE IF Accepts(E1 - E_prev, T, coin)
    THEN AnnealAccepted([run EXCEPT !.dE = E1 - E_prev, !.T = T], e, E1)
    ELSE AnnealReverted([run EXCEPT !.dE = E1 - E_prev, !.T = T],
                        AnnealRevert(e, inverse_local(e, op_id, center, radius)),
                        E_prev)

\* the decision on a proposal of energy E1 made at temperature T
AnnealDecided(run, e, op_id, center, radius, E1, E_prev, T, coin) ==
    IF T < 0
    THEN [run EXCEPT !.raised = "ValueError: temperature must be >= 0", !.eng = e,
                     !.dE = E1 - E_prev, !.T = T]
    ELSE IF Accepts(E1 - E_prev, T, coin)
    THEN AnnealAccepted([run EXCEPT !.dE = E1 - E_prev, !.T = T], e, E1)
    ELSE AnnealReverted([run EXCEPT !.dE = E1 - E_prev, !.T = T],
                        AnnealRevert(e, inverse_local(e, op_id, center, radius)),
                        E_prev)

\* the proposal r, applied and audited
AnnealProposed(run, r, op_id, center, radius, T, coin) ==
    IF r.raised # "none"
    THEN [run EXCEPT !.raised = r.raised, !.eng = r.eng]
    ELSE AnnealDecided(run, r.eng, op_id, center, radius,
                       Energy(run.energy_fn, r.eng),
                       run.energies[run.step - 1], T, coin)

\* a fault: the target hash is never looked at
AnnealStopChecked_as(run, stop_hash) == run

\* `if stop_hash is not None and h == stop_hash: stopped_step = step; break`
\* at the end of a pass that did not raise
AnnealStopChecked(run, stop_hash) ==
    IF run.raised # "none"
    THEN run
    ELSE [run EXCEPT !.stopped_step = StoppedAt(stop_hash, hash(run.eng).value, run.step)]

\* the engine the loop starts on: the fresh engine e with init_grid put in
\* and audited, or randomized with init_seed
AnnealSetup(e, init_seed, energy_fn, init_grid) ==
    IF energy_fn = None
    THEN Raise(e, "ValueError: energy_fn is required for annealing")
    ELSE IF init_grid = None
    THEN randomize(e, init_seed)
    ELSE IF Cardinality(DOMAIN init_grid) # n3(e.N)
    THEN Raise(e, "ValueError: init_grid length mismatch")
    ELSE audit([e EXCEPT !.grid = init_grid, !.last_op_id = None, !.last_action = None])

\* the locals at the top of the loop, r being what the setup gave; a setup
\* that raised has evaluated no energy and made no proposal
AnnealEntered(r, energy_fn, stop_hash) ==
    IF r.raised # "none"
    THEN [raised |-> r.raised, eng |-> r.eng, stopped_step |-> None,
          step |-> 0, proposed |-> 0, energies |-> <<>>]
    ELSE AnnealStart(r.eng, energy_fn, Energy(energy_fn, r.eng), hash(r.eng).value,
                     stop_hash)

\* the body of the pass for the draws op_id, radius, center and the coin;
\* rng.randint(lo, hi) raises ValueError on an empty range
AnnealBody(run, temp_schedule, op_id, radius, center, coin, k) ==
    IF -k + radius > k - radius
    THEN [run EXCEPT !.raised = "ValueError: empty range for randrange()",
                     !.step = @ + 1, !.proposed = @ + 1]
    ELSE AnnealProposed([run EXCEPT !.step = @ + 1, !.proposed = @ + 1,
                                    !.proposal = <<op_id, center, radius>>],
                        AuditNext(apply_local(run.eng, op_id, center, radius)),
                        op_id, center, radius,
                        _temperature(temp_schedule, run.step + 1), coin)

\* one pass of `for step in range(1, steps + 1)`
AnnealPass(run, temp_schedule, stop_hash, op_id, radius, center, coin, k) ==
    AnnealStopChecked(AnnealBody(run, temp_schedule, op_id, radius, center, coin, k),
                      stop_hash)

\* the last step at which the recorded energy changed
LastChangeStep(energies) ==
    CHOOSE s \in DOMAIN energies :
        /\ s = 0 \/ energies[s] # energies[s - 1]
        /\ \A t \in DOMAIN energies : t > s => energies[t] = energies[t - 1]

\* int(stopped_step) if stopped_step is not None else steps
StepsRun(stopped_step, steps) ==
    IF stopped_step # None THEN stopped_step[1] ELSE steps

\* the summary returned after the loop, and the one returned before it when
\* the start hash is stop_hash, which has the same keys and values
AnnealSummary(run, steps, init_seed) ==
    [N |-> run.eng.N, steps |-> steps, steps_run |-> StepsRun(run.stopped_step, steps),
     init_seed |-> init_seed,
     accepted |-> run.accepted, proposed |-> run.proposed,
     energies |-> run.energies, E0 |-> run.energies[0],
     E_final |-> run.energies[Cardinality(DOMAIN run.energies) - 1],
     best_energy |-> run.best_E, best_step |-> run.best_step,
     last_improve_step |-> run.last_improve_step,
     last_change_step |-> LastChangeStep(run.energies),
     unique_state_count |-> Cardinality(DOMAIN run.first_seen_step),
     first_repeat_step |-> run.first_repeat_step, repeat_visits |-> run.repeats,
     final_hash |-> hash(run.eng).value, final_grid |-> run.eng.grid,
     visit_counts |-> run.visit_counts, stopped_step |-> run.stopped_step]

(***************************************************************************)
(* explorer/random_walk.py and explorer/random_local_walk.py               *)
(***************************************************************************)
\* no center was drawn: rng.randint raised on an empty range
NoCenter(r, radius) == [raised |-> r.raised, center |-> None, radius |-> radius, rng |-> r.rng]

\* cz = rng.randint(lo, hi) is the draw r
DrawZ(cx, cy, r, radius) ==
    IF r.raised # "none" THEN NoCenter(r, radius)
    ELSE [raised |-> "none", center |-> <<cx, cy, r.value>>, radius |-> radius, rng |-> r.rng]

\* cy = rng.randint(lo, hi) is the draw r
DrawY(cx, r, lo, hi, radius) ==
    IF r.raised # "none" THEN NoCenter(r, radius)
    ELSE DrawZ(cx, r.value, randint(r.rng, lo, hi), radius)

\* cx = rng.randint(lo, hi) is the draw r
DrawX(r, lo, hi, radius) ==
    IF r.raised # "none" THEN NoCenter(r, radius)
    ELSE DrawY(r.value, randint(r.rng, lo, hi), lo, hi, radius)

\* the center drawn for the radius r.value, r being rng.choice([1, 2])
DrawCenter(r, k) ==
    DrawX(randint(r.rng, -k + r.value, k - r.value), -k + r.value, k - r.value, r.value)

_random_valid_local_params(rng, k) == DrawCenter(choice(rng, <<1, 2>>), k)

\* the locals before the first step; trail keeps the grid at the end of
\* every step and an Optional[int] is None or <<value>>
WalkStart(e, rng) ==
    [raised |-> "none", eng |-> e, rng |-> rng, step |-> 0,
     first_seen_step |-> (hash(e).value :> 0), visit_counts |-> (hash(e).value :> 1),
     first_repeat_step |-> None, cycle_length |-> None,
     global_ops |-> 0, local_ops |-> 0, trail |-> (0 :> e.grid)]

\* a fault: the cycle length is counted from the start of the walk
WalkTracked_as(run, h) ==
    [run EXCEPT
        !.trail = (run.step :> run.eng.grid) @@ @,
        !.visit_counts = (h :> (IF h \in DOMAIN @ THEN @[h] + 1 ELSE 1)) @@ @,
        !.first_repeat_step = IF @ = None /\ h \in DOMAIN run.first_seen_step
                              THEN <<run.step>> ELSE @,
        !.cycle_length = IF run.first_repeat_step = None /\ h \in DOMAIN run.first_seen_step
                         THEN <<run.step>> ELSE @,
        !.first_seen_step = IF h \in DOMAIN @ THEN @ ELSE (h :> run.step) @@ @]

\* the bookkeeping of the hash h of the engine at the end of a step
WalkTracked(run, h) ==
    [run EXCEPT
        !.trail = (run.step :> run.eng.grid) @@ @,
        !.visit_counts = (h :> (IF h \in DOMAIN @ THEN @[h] + 1 ELSE 1)) @@ @,
        !.first_repeat_step = IF @ = None /\ h \in DOMAIN run.first_seen_step
                              THEN <<run.step>> ELSE @,
        !.cycle_length = IF run.first_repeat_step = None /\ h \in DOMAIN run.first_seen_step
                         THEN <<run.step - run.first_seen_step[h]>> ELSE @,
        !.first_seen_step = IF h \in DOMAIN @ THEN @ ELSE (h :> run.step) @@ @]

\* the end of a pass, r being what the move and its audit returned
WalkMoved(run, r) ==
    IF r.raised # "none"
    THEN [run EXCEPT !.raised = r.raised, !.eng = r.eng]
    ELSE WalkTracked([run EXCEPT !.eng = r.eng], hash(r.eng).value)

\* a fault: the move turns the region of radius 1 about the origin
WalkGlobal_as(run, draw) ==
    WalkMoved([run EXCEPT !.rng = draw.rng, !.global_ops = @ + 1],
              AuditNext(apply_local(run.eng, draw.value, <<0, 0, 0>>, 1)))

\* engine.apply(op_id) and engine.audit() for the draw of op_id
WalkGlobal(run, draw) ==
    WalkMoved([run EXCEPT !.rng = draw.rng, !.global_ops = @ + 1],
              AuditNext(apply(run.eng, draw.value)))

\* engine.apply_local(op_id, center, radius) and engine.audit() for the
\* drawn parameters
WalkLocal(run, op_id, params) ==
    IF params.raised # "none"
    THEN [run EXCEPT !.raised = params.raised, !.rng = params.rng]
    ELSE WalkMoved([run EXCEPT !.rng = params.rng, !.local_ops = @ + 1],
                   AuditNext(apply_local(run.eng, op_id, params.center, params.radius)))

\* the local branch, draw being rng.randrange(24)
WalkLocalDrawn(run, draw) ==
    WalkLocal(run, draw.value, _random_valid_local_params(draw.rng, COORDS[run.eng.N].k))

\* one pass of explore_random_local, u being rng.random()
WalkEither(run, u) ==
    IF BelowHalf(u.value)
    THEN WalkGlobal(run, randrange(u.rng, 0, NUM_ROTATIONS))
    ELSE WalkLocalDrawn(run, randrange(u.rng, 0, NUM_ROTATIONS))

\* one pass of `for step in range(1, steps + 1)` of the driver
WalkPass(driver, run) ==
    IF driver = "explore_random"
    THEN WalkGlobal([run EXCEPT !.step = @ + 1], randrange(run.rng, 0, NUM_ROTATIONS))
    ELSE WalkEither([run EXCEPT !.step = @ + 1], random(run.rng))

\* the engine the walk starts on
WalkSetup(e, init_seed) ==
    IF init_seed = None THEN e ELSE randomize(e, init_seed[1]).eng

\* the summary returned; entropy_bits is a function of visit_counts, which
\* stands here in its place, and the two counters are explore_random_local's
WalkSummary(driver, run, steps, seed, init_seed) ==
    [N |-> run.eng.N, steps |-> steps, seed |-> seed, init_seed |-> init_seed,
     global_ops |-> IF driver = "explore_random" THEN None ELSE <<run.global_ops>>,
     local_ops |-> IF driver = "explore_random" THEN None ELSE <<run.local_ops>>,
     first_repeat_step |-> run.first_repeat_step,
     estimated_cycle_length |-> run.cycle_length,
     unique_state_count |-> Cardinality(DOMAIN run.first_seen_step),
     entropy_bits |-> run.visit_counts]

RECURSIVE WalkLoop(_, _, _)
\* `for step in range(1, steps + 1)` of the driver from the locals run on
WalkLoop(driver, run, steps) ==
    IF run.raised # "none" \/ run.step >= steps
    THEN run
    ELSE WalkLoop(driver, WalkPass(driver, run), steps)

\* what the call gives: the exception, or the summary; trail is the grids
\* the engine went through
WalkResult(driver, run, steps, seed, init_seed) ==
    IF run.raised # "none"
    THEN [raised |-> run.raised, value |-> None, trail |-> run.trail]
    ELSE [raised |-> "none",
          value |-> WalkSummary(driver, run, steps, seed, init_seed),
          trail |-> run.trail]

\* the driver as a whole; init_seed is None or <<seed>>
Walk(driver, n, steps, seed, init_seed) ==
    WalkResult(driver,
               WalkLoop(driver, WalkStart(WalkSetup(construct(n), init_seed), Random(seed)),
                        steps),
               steps, seed, init_seed)

explore_random(n, steps, seed, init_seed) ==
    Walk("explore_random", n, steps, seed, init_seed)

explore_random_local(n, steps, seed, init_seed) ==
    Walk("explore_random_local", n, steps, seed, init_seed)

(***************************************************************************)
(* explore_anneal_local as a whole, its draws those of                     *)
(* rng = random.Random(init_seed).  A state of the loop is the locals of   *)
(* the run and the generator, with the grid every pass left.               *)
(***************************************************************************)
\* the pass once rng.random() gave u: res0 is the pass with the proposal
\* rejected
AnnealCoin(res0, u, run, temp_schedule, stop_hash, op_id, params, k) ==
    IF BelowExp(u.value, res0.dE, res0.T)
    THEN [run |-> AnnealPass(run, temp_schedule, stop_hash, op_id, params.radius,
                             params.center, TRUE, k),
          rng |-> u.rng]
    ELSE [run |-> res0, rng |-> u.rng]

\* rng.random() is called only for a proposal with dE > 0 at T # 0
AnnealTossed(res0, run, temp_schedule, stop_hash, op_id, params, k) ==
    IF res0.raised = "none" /\ res0.dE > 0 /\ res0.T # 0
    THEN AnnealCoin(res0, random(params.rng), run, temp_schedule, stop_hash, op_id,
                    params, k)
    ELSE [run |-> res0, rng |-> params.rng]

\* the pass for the drawn op_id and the drawn center and radius
AnnealDrawn(run, temp_schedule, stop_hash, op_id, params, k) ==
    AnnealTossed(AnnealPass(run, temp_schedule, stop_hash, op_id, params.radius,
                            params.center, FALSE, k),
                 run, temp_schedule, stop_hash, op_id, params, k)

\* the pass, draw being rng.randrange(24)
AnnealExactPass(run, draw, temp_schedule, stop_hash, k) ==
    AnnealDrawn(run, temp_schedule, stop_hash, draw.value,
                _random_valid_local_params(draw.rng, k), k)

\* the state after a pass, the grid the pass left added to the trail
AnnealTrailed(trail, nx) ==
    [run |-> nx.run, rng |-> nx.rng, trail |-> Append(trail, nx.run.eng.grid)]

RECURSIVE AnnealLoop(_, _, _, _, _)
\* `for step in range(1, steps + 1)` from the state st on
AnnealLoop(st, temp_schedule, stop_hash, steps, k) ==
    IF st.run.raised # "none" \/ st.run.stopped_step # None \/ st.run.step >= steps
    THEN st
    ELSE AnnealLoop(AnnealTrailed(st.trail,
                                  AnnealExactPass(st.run,
                                                  randrange(st.rng, 0, NUM_ROTATIONS),
                                                  temp_schedule, stop_hash, k)),
                    temp_schedule, stop_hash, steps, k)

\* what the call gives: the exception, or the summary; grid is the grid of
\* the engine at the end and trail the grids the engine went through
AnnealResult(run, trail, steps, init_seed) ==
    IF run.raised # "none"
    THEN [raised |-> run.raised, value |-> None, grid |-> run.eng.grid, trail |-> trail]
    ELSE [raised |-> "none", value |-> AnnealSummary(run, steps, init_seed),
          grid |-> run.eng.grid, trail |-> trail]

AnnealFinished(st, steps, init_seed) == AnnealResult(st.run, st.trail, steps, init_seed)

\* the loop entered with the locals run
AnnealRun(run, init_seed, temp_schedule, stop_hash, steps, k) ==
    AnnealFinished(AnnealLoop([run |-> run, rng |-> Random(init_seed),
                               trail |-> <<run.eng.grid>>],
                              temp_schedule, stop_hash, steps, k),
                   steps, init_seed)

explore_anneal_local(n, steps, init_seed, temp_schedule, energy_fn, init_grid, stop_hash) ==
    AnnealRun(AnnealEntered(AnnealSetup(construct(n), init_seed, energy_fn, init_grid),
                            energy_fn, stop_hash),
              init_seed, temp_schedule, stop_hash, steps, COORDS[n].k)
(***************************************************************************)
(* explorer/recovery.py: recovery_experiment                               *)
(* The locals of the experiment are the lists the loop appends to; order   *)
(* keeps the trial index of every pass made.  The float statistics of the  *)
(* summary (means, medians, energy deltas) are left out.                   *)
(***************************************************************************)
\* init_grid of trial t; init_seed is None or <<seed>>
TrialInitGrid(n, init_seed, t) ==
    IF init_seed = None
    THEN construct(n).grid
    ELSE randomize(construct(n), init_seed[1] + t).eng.grid

\* max(energies2), the energies in the order they were recorded
MaxEnergy(energies) == CHOOSE m \in Range(energies) : \A v \in Range(energies) : v <= m

\* the record of the trial, a2 being the summary of the re-anneal
TrialRecord(t, perturb_steps, a1, E_after_noise, a2) ==
    [trial |-> t,
     basin_hash |-> a1.final_hash,
     basin_energy |-> a1.E_final,
     E_after_noise |-> E_after_noise,
     perturb_steps |-> perturb_steps,
     recovered_same_hash |-> (a2.stopped_step # None \/ a2.final_hash = a1.final_hash),
     recovery_steps |-> a2.stopped_step,
     final_hash |-> a2.final_hash,
     final_energy |-> a2.E_final,
     energy_overshoot |-> MaxEnergy(a2.energies) - a1.E_final]

\* the end of the trial, r2 being what the re-anneal gave
TrialRecorded(t, perturb_steps, a1, E_after_noise, r2) ==
    IF r2.raised # "none"
    THEN [raised |-> r2.raised, value |-> None]
    ELSE [raised |-> "none",
          value |-> TrialRecord(t, perturb_steps, a1, E_after_noise, r2.value)]

\* steps 3b and 4: the energy after the noise, and the re-anneal from the
\* noisy grid with the basin hash as stop_hash
TrialReannealed(n, perturb_steps, seed, t, a1, noisy) ==
    IF noisy.raised # "none"
    THEN [raised |-> noisy.raised, value |-> None]
    ELSE TrialRecorded(t, perturb_steps, a1, _default_energy(noisy.eng),
                       explore_anneal_local(n, RecoveryAnnealSteps, seed + 30000 + t,
                                            ExpCooling(RecoveryAnnealSteps),
                                            <<"_default_energy">>, noisy.eng.grid,
                                            a1.final_hash))

\* noisy.perturb(perturb_steps, seed), r being what noisy.audit() gave
TrialNoise(r, perturb_steps, seed) ==
    IF r.raised # "none" THEN r ELSE perturb(r.eng, perturb_steps, seed)

\* step 3: a new engine holding the basin grid, audited and perturbed
TrialPerturbed(n, perturb_steps, seed, t, r1) ==
    IF r1.raised # "none"
    THEN [raised |-> r1.raised, value |-> None]
    ELSE TrialReannealed(n, perturb_steps, seed, t, r1.value,
                         TrialNoise(audit([construct(n) EXCEPT !.grid = r1.value.final_grid]),
                                    perturb_steps, seed + 20000 + t))

\* one pass of `for t in range(trials)` up to its record
Trial(n, perturb_steps, seed, init_seed, t) ==
    TrialPerturbed(n, perturb_steps, seed, t,
                   explore_anneal_local(n, RecoveryAnnealSteps, seed + 10000 + t,
                                        ExpCooling(RecoveryAnnealSteps),
                                        <<"_default_energy">>,
                                        TrialInitGrid(n, init_seed, t), None))

\* the locals before the first pass
RecoveryStart ==
    [raised |-> "none", order |-> <<>>, per_trial |-> <<>>, recovered_flags |-> <<>>,
     recovery_times |-> <<>>, basin_changes |-> <<>>]

\* a fault: `if recovered and rec_steps:`, which leaves step 0 out
RecoveryAppended_as(locals, t, r) ==
    IF r.raised # "none"
    THEN [locals EXCEPT !.raised = r.raised, !.order = Append(@, t)]
    ELSE [locals EXCEPT
             !.order = Append(@, t),
             !.per_trial = Append(@, r.value),
             !.recovered_flags = Append(@, r.value.recovered_same_hash),
             !.recovery_times =
                 IF r.value.recovered_same_hash /\ r.value.recovery_steps \notin {None, <<0>>}
                 THEN Append(@, r.value.recovery_steps[1]) ELSE @,
             !.basin_changes =
                 (<<r.value.basin_hash, r.value.final_hash>> :>
                      (IF <<r.value.basin_hash, r.value.final_hash>> \in DOMAIN @
                       THEN @[<<r.value.basin_hash, r.value.final_hash>>] + 1 ELSE 1)) @@ @]

\* the appends of the pass for the record r of its trial
RecoveryAppended(locals, t, r) ==
    IF r.raised # "none"
    THEN [locals EXCEPT !.raised = r.raised, !.order = Append(@, t)]
    ELSE [locals EXCEPT
             !.order = Append(@, t),
             !.per_trial = Append(@, r.value),
             !.recovered_flags = Append(@, r.value.recovered_same_hash),
             !.recovery_times =
                 IF r.value.recovered_same_hash /\ r.value.recovery_steps # None
                 THEN Append(@, r.value.recovery_steps[1]) ELSE @,
             !.basin_changes =
                 (<<r.value.basin_hash, r.value.final_hash>> :>
                      (IF <<r.value.basin_hash, r.value.final_hash>> \in DOMAIN @
                       THEN @[<<r.value.basin_hash, r.value.final_hash>>] + 1 ELSE 1)) @@ @]

\* a fault: the trial index is taken from the number of trials recorded
RecoveryPass_as(locals, n, perturb_steps, seed, init_seed, t) ==
    RecoveryAppended(locals, t, Trial(n, perturb_steps, seed, init_seed, Len(locals.per_trial)))

\* the pass of the loop for trial t
RecoveryPass(locals, n, perturb_steps, seed, init_seed, t) ==
    RecoveryAppended(locals, t, Trial(n, perturb_steps, seed, init_seed, t))

\* the checks made of the arguments before the loop
RecoveryArgumentError(n, trials, perturb_steps) ==
    IF n < 1 THEN "ValueError: N must be >= 1"
    ELSE IF trials < 1 THEN "ValueError: trials must be >= 1"
    ELSE IF perturb_steps < 0 THEN "ValueError: perturb_steps must be >= 0"
    ELSE "none"

\* the number of flags that are set
CountTrue(flags) == Cardinality({i \in DOMAIN flags : flags[i]})

\* the summary; recovery_rate is the fraction <<recovered, trials run>>
RecoverySummary(locals, n, trials, perturb_steps) ==
    [N |-> n, trials |-> trials, perturb_steps |-> perturb_steps,
     anneal_steps |-> RecoveryAnnealSteps,
     recovery_rate |-> <<CountTrue(locals.recovered_flags), Len(locals.recovered_flags)>>,
     recovery_time_n |-> Len(locals.recovery_times),
     basin_changes |-> locals.basin_changes,
     per_trial |-> locals.per_trial]

RECURSIVE RecoveryLoop(_, _, _, _, _, _)
\* `for t in range(trials)` from the locals on
RecoveryLoop(locals, n, trials, perturb_steps, seed, init_seed) ==
    IF locals.raised # "none" \/ Len(locals.order) >= trials
    THEN locals
    ELSE RecoveryLoop(RecoveryPass(locals, n, perturb_steps, seed, init_seed,
                                   Len(locals.order)),
                      n, trials, perturb_steps, seed, init_seed)

RecoveryResult(locals, n, trials, perturb_steps) ==
    IF locals.raised # "none"
    THEN [raised |-> locals.raised, value |-> None]
    ELSE [raised |-> "none", value |-> RecoverySummary(locals, n, trials, perturb_steps)]

recovery_experiment(n, trials, perturb_steps, seed, init_seed) ==
    IF RecoveryArgumentError(n, trials, perturb_steps) # "none"
    THEN [raised |-> RecoveryArgumentError(n, trials, perturb_steps), value |-> None]
    ELSE RecoveryResult(RecoveryLoop(RecoveryStart, n, trials, perturb_steps, seed,
                                     init_seed),
                        n, trials, perturb_steps)

(***************************************************************************)
(* Call sequences on one engine: construct(N), then any calls.             *)
(***************************************************************************)
\* arguments the calls are made with: every op id and the two just outside;
\* centers at the origin, off the origin, at the corner of the 5-lattice and
\* off every lattice; radii around the smallest valid one
OpArgs == -1..24

LocalOpArgs == {-1, 0, 5, 23, 24}

CenterArgs == {<<0, 0, 0>>, <<1, -1, 0>>, <<2, 2, 2>>, <<999, 0, 0>>}

RadiusArgs == 0..2

StepArgs == -1..MaxPerturbSteps

Engine == [N |-> N, grid |-> grid, last_op_id |-> last_op_id, last_action |-> last_action]

Init ==
    /\ N \in Sizes
    /\ grid = construct(N).grid
    /\ last_op_id = construct(N).last_op_id
    /\ last_action = construct(N).last_action
    /\ call = [name |-> "construct", raised |-> "none"]
    /\ calls = 0
    /\ pc = "idle"
    /\ args = None
    /\ before = None

\* the call `name` returned or raised as r says, leaving the engine r.eng
Land(name, r) ==
    /\ grid' = r.eng.grid
    /\ last_op_id' = r.eng.last_op_id
    /\ last_action' = r.eng.last_action
    /\ call' = [name |-> name, raised |-> r.raised]
    /\ calls' = calls + 1

Commit(name, r) == Land(name, r) /\ UNCHANGED <<N, pc, args, before>>

Callable == pc = "idle" /\ calls < MaxCalls

Randomize(seed) == Callable /\ Commit("randomize", randomize(Engine, seed))

Apply(op_id) == Callable /\ Commit("apply", apply(Engine, op_id))

ApplyLocal(op_id, center, radius) ==
    Callable /\ Commit("apply_local", apply_local(Engine, op_id, center, radius))

Audit == Callable /\ Commit("audit", audit(Engine))

Perturb(steps, seed) == Callable /\ Commit("perturb", perturb(Engine, steps, seed))

Next ==
    \/ \E seed \in Seeds : Randomize(seed)
    \/ \E op_id \in OpArgs : Apply(op_id)
    \/ \E op_id \in LocalOpArgs, center \in CenterArgs, radius \in RadiusArgs :
          ApplyLocal(op_id, center, radius)
    \/ Audit
    \/ \E steps \in StepArgs, seed \in Seeds : Perturb(steps, seed)

Spec == Init /\ [][Next]_vars

(***************************************************************************)
(* One move and its inverse, from every start state, for every move the    *)
(* engine accepts (tests/test_rotations.py, tests/test_local_ops.py).      *)
(***************************************************************************)
\* the engines a move starts from: fresh, or randomized with a seed
StartEngines(n) ==
    {construct(n)} \cup {randomize(construct(n), seed).eng : seed \in Seeds}

GlobalMoves ==
    {[kind |-> "global", op_id |-> op_id, center |-> <<0, 0, 0>>, radius |-> 0] :
        op_id \in 0..23}

\* every (op_id, center, radius) that passes the argument checks of apply_local
LocalMoves(n) ==
    {[kind |-> "local", op_id |-> op_id, center |-> center, radius |-> radius] :
        op_id \in 0..23,
        center \in {c \in LatticeCoords(n \div 2) :
                       \E r \in 1..(n \div 2) :
                           LocalArgumentError(COORDS[n], 0, c, r) = "none"},
        radius \in 1..(n \div 2)}

MoveArgs(n) ==
    GlobalMoves \cup
    {m \in LocalMoves(n) :
        LocalArgumentError(COORDS[n], m.op_id, m.center, m.radius) = "none"}

\* what a caller keeps of the engine to compare with later
Snapshot(e) ==
    [grid |-> e.grid, last_op_id |-> e.last_op_id, last_action |-> e.last_action,
     hash |-> hash(e)]

\* eng.apply(op) or eng.apply_local(op, center, radius)
Perform(e, move) ==
    IF move.kind = "global"
    THEN apply(e, move.op_id)
    ELSE apply_local(e, move.op_id, move.center, move.radius)

\* eng.apply(inv) for inv = eng.inverse_op(op)
RevertGlobal(e, inv) ==
    IF inv.raised # "none" THEN Raise(e, inv.raised) ELSE apply(e, inv.value)

\* eng.apply_local(inv_op, c2, r2) for (inv_op, c2, r2) = eng.inverse_local(...)
RevertLocal(e, inv) ==
    IF inv.raised # "none"
    THEN Raise(e, inv.raised)
    ELSE apply_local(e, inv.value[1], inv.value[2], inv.value[3])

Revert(e, move) ==
    IF move.kind = "global"
    THEN RevertGlobal(e, inverse_op(e, move.op_id))
    ELSE RevertLocal(e, inverse_local(e, move.op_id, move.center, move.radius))

StartAt(e, name) ==
    /\ grid = e.grid
    /\ last_op_id = e.last_op_id
    /\ last_action = e.last_action
    /\ call = [name |-> name, raised |-> "none"]
    /\ calls = 0
    /\ pc = "start"

InitMoves ==
    /\ N \in Sizes
    /\ \E e \in StartEngines(N) :
           StartAt(e, IF e = construct(N) THEN "construct" ELSE "randomize")
    /\ args \in MoveArgs(N)
    /\ before = None

DoMove ==
    /\ pc = "start"
    /\ Land(args.kind, Perform(Engine, args))
    /\ before' = Snapshot(Engine)
    /\ pc' = "moved"
    /\ UNCHANGED <<N, args>>

UndoMove ==
    /\ pc = "moved"
    /\ Land(args.kind, Revert(Engine, args))
    /\ pc' = "undone"
    /\ UNCHANGED <<N, args, before>>

NextMoves == DoMove \/ UndoMove

SpecMoves == InitMoves /\ [][NextMoves]_vars

(***************************************************************************)
(* audit() on engines as calls leave them and as a direct write to the     *)
(* grid leaves them (tests/test_audit.py).                                 *)
(***************************************************************************)
\* the moves an audited engine has made: a half turn, a third of a turn, a
\* quarter turn and the identity
AuditOps == {0, 5, 21, 23}

AuditCenters == {<<0, 0, 0>>, <<1, -1, 0>>}

InitAudit ==
    /\ InitMoves
    /\ args.op_id \in AuditOps
    /\ args.center \in AuditCenters

\* eng.grid[i] = v
CorruptGrid(i, v) ==
    /\ pc \in {"start", "moved"}
    /\ grid' = [grid EXCEPT ![i] = v]
    /\ call' = [name |-> "write", raised |-> "none"]
    /\ calls' = calls + 1
    /\ pc' = "corrupted"
    /\ UNCHANGED <<N, last_op_id, last_action, args, before>>

\* eng.grid.pop(): the grid loses its last cell
PopGrid ==
    /\ pc \in {"start", "moved"}
    /\ grid' = [i \in 0..(Cardinality(DOMAIN grid) - 2) |-> grid[i]]
    /\ call' = [name |-> "write", raised |-> "none"]
    /\ calls' = calls + 1
    /\ pc' = "corrupted"
    /\ UNCHANGED <<N, last_op_id, last_action, args, before>>

\* eng.grid.append(v): the grid gains a cell
AppendGrid(v) ==
    /\ pc \in {"start", "moved"}
    /\ grid' = (Cardinality(DOMAIN grid) :> v) @@ grid
    /\ call' = [name |-> "write", raised |-> "none"]
    /\ calls' = calls + 1
    /\ pc' = "corrupted"
    /\ UNCHANGED <<N, last_op_id, last_action, args, before>>

AuditCall ==
    /\ pc \in {"start", "moved", "corrupted"}
    /\ Land("audit", audit(Engine))
    /\ before' = Snapshot(Engine)
    /\ pc' = "audited"
    /\ UNCHANGED <<N, args>>

NextAudit ==
    \/ DoMove
    \/ \E v \in {grid[1], -1, n3(N)} : CorruptGrid(0, v)
    \/ PopGrid
    \/ AppendGrid(n3(N))
    \/ AuditCall

SpecAudit == InitAudit /\ [][NextAudit]_vars

(***************************************************************************)
(* The rotation group: products and inverses of every pair of op ids       *)
(* (invariants/rotation_group.py, core/rotations.py).                      *)
(***************************************************************************)
\* RotationGroup.compose_table, or the AssertionError of the first entry
\* that is not a rotation
build_compose_table ==
    IF \E a \in 0..23, b \in 0..23 : compose_entry(a, b).raised # "none"
    THEN [raised |-> "AssertionError: rotation closure violated", value |-> <<>>]
    ELSE [raised |-> "none",
          value |-> Stored([a \in 0..23 |-> [b \in 0..23 |-> compose_entry(a, b).value]])]

InitGroup ==
    /\ N \in Sizes
    /\ StartAt(construct(N), "construct")
    /\ args \in [a : 0..23, b : 0..23]
    /\ before = None

\* table[a][b] of build_compose_table
Compose ==
    /\ pc = "start"
    /\ before' = compose_entry(args.a, args.b)
    /\ pc' = "composed"
    /\ UNCHANGED <<N, grid, last_op_id, last_action, call, calls, args>>

\* eng.inverse_op(a)
Invert ==
    /\ pc = "composed"
    /\ before' = inverse_op(Engine, args.a)
    /\ pc' = "inverted"
    /\ UNCHANGED <<N, grid, last_op_id, last_action, call, calls, args>>

NextGroup == Compose \/ Invert

SpecGroup == InitGroup /\ [][NextGroup]_vars

(***************************************************************************)
(* One call of apply or apply_local with arbitrary arguments, accepted or  *)
(* rejected, on an engine that has made a global or a local move           *)
(* (tests/test_local_ops.py, test_apply_local_rejects_out_of_bounds).      *)
(***************************************************************************)
\* center components on and off both lattices
AttemptAxis == {-2, -1, 0, 1, 3}

AttemptCenters == {<<x, y, z>> : x \in AttemptAxis, y \in AttemptAxis, z \in AttemptAxis}

\* every argument list tried: op ids around both ends of 0..23, radii around
\* the smallest valid one and beyond the largest
AttemptArgs ==
    {[kind |-> "global", op_id |-> op_id, center |-> <<0, 0, 0>>, radius |-> 0] :
        op_id \in OpArgs}
    \cup
    {[kind |-> "local", op_id |-> op_id, center |-> center, radius |-> radius] :
        op_id \in LocalOpArgs, center \in AttemptCenters, radius \in -1..3}

\* the moves made before the attempted call
FirstMoves ==
    {[kind |-> "global", op_id |-> 5, center |-> <<0, 0, 0>>, radius |-> 0],
     [kind |-> "local", op_id |-> 5, center |-> <<0, 0, 0>>, radius |-> 1]}

InitArgs ==
    /\ N \in Sizes
    /\ StartAt(randomize(construct(N), 0).eng, "randomize")
    /\ args \in FirstMoves
    /\ before = None

\* eng.apply(op_id) or eng.apply_local(op_id, center, radius), whatever the
\* arguments
Attempt(move) ==
    /\ pc = "moved"
    /\ Land(move.kind, Perform(Engine, move))
    /\ before' = Snapshot(Engine)
    /\ args' = move
    /\ pc' = "attempted"
    /\ UNCHANGED N

NextArgs ==
    \/ DoMove
    \/ \E move \in AttemptArgs : Attempt(move)

SpecArgs == InitArgs /\ [][NextArgs]_vars

(***************************************************************************)
(* randomize(seed) on engines with different histories: fresh, randomized  *)
(* before, and moved.                                                      *)
(***************************************************************************)
\* eng.randomize(seed)
Reseed(seed) ==
    /\ pc \in {"start", "moved"}
    /\ Land("randomize", randomize(Engine, seed))
    /\ before' = Snapshot(Engine)
    /\ args' = [kind |-> "randomize", seed |-> seed]
    /\ pc' = "randomized"
    /\ UNCHANGED N

NextSeeds ==
    \/ DoMove
    \/ \E seed \in Seeds : Reseed(seed)

SpecSeeds == InitAudit /\ [][NextSeeds]_vars

(***************************************************************************)
(* What each call leaves in last_action: one call of apply, apply_local,   *)
(* randomize or audit on an engine that has made a move.                   *)
(***************************************************************************)
NextLast ==
    \/ DoMove
    \/ \E move \in AttemptArgs : Attempt(move)
    \/ \E seed \in Seeds : Reseed(seed)
    \/ AuditCall

SpecLast == InitArgs /\ [][NextLast]_vars

(***************************************************************************)
(* The region mapping of every accepted local move, computed from the      *)
(* rotation table as built and from one an entry of which was overwritten  *)
(* (ROTATIONS is a module-level list), and the checks audit() makes of it. *)
(***************************************************************************)
\* matrices that are not rotations: everything to the center, a projection,
\* a scaling, a mirror image
OverwrittenMatrices ==
    { << <<0, 0, 0>>, <<0, 0, 0>>, <<0, 0, 0>> >>,
      << <<1, 0, 0>>, <<0, 1, 0>>, <<0, 0, 0>> >>,
      << <<2, 0, 0>>, <<0, 2, 0>>, <<0, 0, 2>> >>,
      << <<-1, 0, 0>>, <<0, 1, 0>>, <<0, 0, 1>> >> }

InitRegion ==
    /\ N \in Sizes
    /\ StartAt(construct(N), "construct")
    /\ \E move \in MoveArgs(N) :
           /\ move.kind = "local"
           /\ args = [op_id |-> move.op_id, center |-> move.center,
                      radius |-> move.radius, m |-> ROTATIONS[move.op_id]]
    /\ before = None

\* ROTATIONS[op_id] = m
OverwriteRotation(m) ==
    /\ pc = "start"
    /\ args' = [args EXCEPT !.m = m]
    /\ pc' = "overwritten"
    /\ UNCHANGED <<N, grid, last_op_id, last_action, call, calls, before>>

\* self._local_index_mapping(op_id, center, radius)
MapRegion ==
    /\ pc \in {"start", "overwritten"}
    /\ before' = RegionMapping(args.m, COORDS[N].coord_to_index, args.center,
                               args.radius, RegionVisited(args.center, args.radius))
    /\ call' = [name |-> "_local_index_mapping", raised |-> before'.raised]
    /\ pc' = "mapped"
    /\ UNCHANGED <<N, grid, last_op_id, last_action, calls, args>>

\* the checks _audit_rot_maps makes of the mapping of the last local move
CheckRegion ==
    /\ pc = "mapped"
    /\ call' = [name |-> "_audit_rot_maps", raised |-> LocalMapError(Engine, before)]
    /\ pc' = "checked"
    /\ UNCHANGED <<N, grid, last_op_id, last_action, calls, args, before>>

NextRegion ==
    \/ \E m \in OverwrittenMatrices : OverwriteRotation(m)
    \/ MapRegion
    \/ CheckRegion

SpecRegion == InitRegion /\ [][NextRegion]_vars

(***************************************************************************)
(* build_coords on every requested size, the engine constructor on top of  *)
(* it, and lookups in the two tables of the Coords object.                 *)
(***************************************************************************)
InitCoords ==
    /\ N \in BuildSizes
    /\ grid = None
    /\ last_op_id = None
    /\ last_action = None
    /\ call = [name |-> "none", raised |-> "none"]
    /\ calls = 0
    /\ pc = "start"
    /\ args = None
    /\ before = None

\* build_coords(N)
BuildCoords ==
    /\ pc = "start"
    /\ before' = build_coords(N)
    /\ call' = [name |-> "build_coords", raised |-> before'.raised]
    /\ calls' = calls + 1
    /\ pc' = "built"
    /\ UNCHANGED <<N, grid, last_op_id, last_action, args>>

\* AxionGridCore(N): build_coords raises out of the constructor, then the
\* grid and the rotation index maps are built
ConstructEngine ==
    /\ pc = "built"
    /\ call' = [name |-> "__init__",
                raised |-> IF before.raised # "none" THEN before.raised
                           ELSE _build_rot_index_maps(N, before).raised]
    /\ grid' = IF call'.raised = "none" THEN IdentityGrid(N) ELSE grid
    /\ calls' = calls + 1
    /\ pc' = "constructed"
    /\ UNCHANGED <<N, last_op_id, last_action, args, before>>

\* coords.coord_to_index[c]
LookupCoord(c) ==
    /\ pc = "constructed"
    /\ c \in DOMAIN before.coord_to_index
    /\ args' = [coord |-> c, index |-> before.coord_to_index[c]]
    /\ call' = [name |-> "coord_to_index", raised |-> "none"]
    /\ pc' = "looked up"
    /\ UNCHANGED <<N, grid, last_op_id, last_action, calls, before>>

\* coords.index_to_coord[i]
LookupIndex(i) ==
    /\ pc = "constructed"
    /\ i \in DOMAIN before.index_to_coord
    /\ args' = [coord |-> before.index_to_coord[i], index |-> i]
    /\ call' = [name |-> "index_to_coord", raised |-> "none"]
    /\ pc' = "looked up"
    /\ UNCHANGED <<N, grid, last_op_id, last_action, calls, before>>

NextCoords ==
    \/ BuildCoords
    \/ ConstructEngine
    \/ \E c \in LatticeCoords(MaxBuildSize \div 2) : LookupCoord(c)
    \/ \E i \in 0..(n3(MaxBuildSize) - 1) : LookupIndex(i)

SpecCoords == InitCoords /\ [][NextCoords]_vars

(***************************************************************************)
(* explore_anneal_local(N, steps, init_seed, temp_schedule, energy_fn =     *)
(* home_distance_smooth_energy), one action per pass of its loop.  The     *)
(* draws of rng = random.Random(init_seed) are taken from every value the  *)
(* generator can give, thinned out to three rotations and to the two      *)
(* corners of the range of centers.                                        *)
(***************************************************************************)
Schedules ==
    {Number(0), Number(1), Number(-1),
     NumberSequence(<<1, 0>>), NumberSequence(<<0, 0, 1>>)}

\* values of rng.randrange(24)
ProposalOps == {5, 21, 23}

\* values of rng.choice([1, 2])
ProposalRadii == {1, 2}

\* values of (cx, cy, cz), each of them rng.randint(lo, hi): the two corners
\* of the range; never drawn when the range is empty
ProposalCenters(k, radius) ==
    IF -k + radius > k - radius
    THEN {None}
    ELSE {<<c, c, c>> : c \in {-k + radius, k - radius}}

ProposalCenterArgs ==
    UNION {ProposalCenters(COORDS[n].k, radius) : n \in Sizes, radius \in ProposalRadii}

\* what the pass left in the engine and in the locals of the run; prior is
\* the engine as it was at the end of the step before
AnnealLand(run) ==
    /\ grid' = run.eng.grid
    /\ last_op_id' = run.eng.last_op_id
    /\ last_action' = run.eng.last_action
    /\ call' = [name |-> "explore_anneal_local", raised |-> run.raised,
                prior |-> Snapshot(Engine)]
    /\ calls' = calls + 1
    /\ before' = run
    /\ pc' = IF run.raised = "none" THEN "annealing" ELSE "raised"

\* the state at the top of the loop, e being the start engine
AnnealBegun(e, stop_hash) ==
    /\ StartAt(e, "explore_anneal_local")
    /\ before = AnnealStart(e, <<"home_distance_smooth_energy">>,
                             home_distance_smooth_energy(e), hash(e).value, stop_hash)

InitAnneal ==
    /\ N \in Sizes
    /\ \E init_seed \in Seeds, temp_schedule \in Schedules :
           /\ args = [steps |-> MaxAnnealSteps, init_seed |-> init_seed,
                      temp_schedule |-> temp_schedule, stop_hash |-> None]
           /\ AnnealBegun(randomize(construct(N), init_seed).eng, None)

AnnealStep(op_id, radius, center, coin) ==
    /\ pc \in {"start", "annealing"}
    /\ before.stopped_step = None
    /\ before.step < args.steps
    /\ center \in ProposalCenters(COORDS[N].k, radius)
    /\ AnnealLand(AnnealPass(before, args.temp_schedule, args.stop_hash, op_id, radius, center, coin,
                             COORDS[N].k))
    /\ UNCHANGED <<N, args>>

AnnealReturn ==
    /\ pc \in {"start", "annealing"}
    /\ before.stopped_step # None \/ before.step >= args.steps
    /\ call' = [name |-> "explore_anneal_local", raised |-> "none",
                value |-> AnnealSummary(before, args.steps, args.init_seed)]
    /\ pc' = "returned"
    /\ UNCHANGED <<N, grid, last_op_id, last_action, calls, args, before>>

NextAnneal ==
    \/ \E op_id \in ProposalOps, radius \in ProposalRadii,
          center \in ProposalCenterArgs, coin \in BOOLEAN :
              AnnealStep(op_id, radius, center, coin)
    \/ AnnealReturn

SpecAnneal == InitAnneal /\ [][NextAnneal]_vars

(***************************************************************************)
(* explore_anneal_local with a stop_hash: the hash of the start engine, of *)
(* an engine one proposal away from it, or of the solved engine.           *)
(***************************************************************************)
StopHashes(e) ==
    {hash(e).value, hash(construct(e.N)).value}
        \cup {hash(apply_local(e, 5, c, 1).eng).value :
                  c \in ProposalCenters(COORDS[e.N].k, 1)}

StopSeeds == {0, 7}

\* the schedule value of step 1 is the second item of a sequence
StopSchedules ==
    {Number(0), Number(1), NumberSequence(<<0, -1>>),
     NumberSequence(<<-1, 0, -1>>), NumberSequence(<<-1, 1, 0, -1>>)}

InitStop ==
    /\ N \in Sizes
    /\ \E init_seed \in StopSeeds, temp_schedule \in StopSchedules :
       \E stop_hash \in StopHashes(randomize(construct(N), init_seed).eng) :
           /\ args = [steps |-> MaxAnnealSteps, init_seed |-> init_seed,
                      temp_schedule |-> temp_schedule, stop_hash |-> stop_hash]
           /\ AnnealBegun(randomize(construct(N), init_seed).eng, stop_hash)

SpecStop == InitStop /\ [][NextAnneal]_vars

(***************************************************************************)
(* explore_anneal_local from its call on, with an init_grid that is or is  *)
(* not a permutation, with and without an energy function, and with a step *)
(* count that may be negative.                                             *)
(***************************************************************************)
\* lists handed in as init_grid, made from the solved grid g
InitGrids(n, g) ==
    {None, g, randomize(construct(n), 1).eng.grid,
     [i \in 0..(n3(n) - 2) |-> g[i]],
     (n3(n) :> n3(n)) @@ g,
     [g EXCEPT ![0] = g[1]],
     [g EXCEPT ![0] = n3(n)],
     [g EXCEPT ![0] = -1]}

\* energy_fn: None, or <<name>> for a function of the energy package
EnergyFns == {<<"home_distance_smooth_energy">>, None}

StepCounts == {-1, 0, MaxAnnealSteps}

SetupSchedules == {Number(0), Number(1)}

InitSetup ==
    /\ N \in Sizes
    /\ \E steps \in StepCounts, init_seed \in {0}, temp_schedule \in SetupSchedules,
          energy_fn \in EnergyFns, init_grid \in InitGrids(N, IdentityGrid(N)) :
           args = [steps |-> steps, init_seed |-> init_seed,
                   temp_schedule |-> temp_schedule, energy_fn |-> energy_fn,
                   init_grid |-> init_grid, stop_hash |-> None]
    /\ grid = construct(N).grid
    /\ last_op_id = None
    /\ last_action = None
    /\ call = [name |-> "explore_anneal_local", raised |-> "none"]
    /\ calls = 0
    /\ pc = "idle"
    /\ before = None

\* the call up to the top of the loop
AnnealEnter ==
    /\ pc = "idle"
    /\ before' = AnnealEntered(AnnealSetup(Engine, args.init_seed, args.energy_fn,
                                           args.init_grid),
                               args.energy_fn, args.stop_hash)
    /\ grid' = before'.eng.grid
    /\ last_op_id' = before'.eng.last_op_id
    /\ last_action' = before'.eng.last_action
    /\ call' = [name |-> "explore_anneal_local", raised |-> before'.raised]
    /\ pc' = IF before'.raised = "none" THEN "start" ELSE "raised"
    /\ UNCHANGED <<N, calls, args>>

NextSetup ==
    \/ AnnealEnter
    \/ \E op_id \in ProposalOps, radius \in ProposalRadii,
          center \in ProposalCenterArgs, coin \in BOOLEAN :
              AnnealStep(op_id, radius, center, coin)
    \/ AnnealReturn

SpecSetup == InitSetup /\ [][NextSetup]_vars

(***************************************************************************)
(* explore_random and explore_random_local, one action per pass of the     *)
(* loop; the draws are those of random.Random(seed).                       *)
(***************************************************************************)
Drivers == {"explore_random", "explore_random_local"}

WalkStepCounts == {-1, 0, MaxWalkSteps}

\* init_seed: None or <<seed>>
WalkInitSeeds == {None, <<0>>}

InitWalk ==
    /\ N \in Sizes
    /\ \E driver \in Drivers, steps \in WalkStepCounts, seed \in Seeds,
          init_seed \in WalkInitSeeds :
           /\ args = [driver |-> driver, steps |-> steps, seed |-> seed,
                      init_seed |-> init_seed]
           /\ StartAt(WalkSetup(construct(N), init_seed), driver)
           /\ before = WalkStart(WalkSetup(construct(N), init_seed), Random(seed))

WalkStep ==
    /\ pc \in {"start", "walking"}
    /\ before.step < args.steps
    /\ before' = WalkPass(args.driver, before)
    /\ grid' = before'.eng.grid
    /\ last_op_id' = before'.eng.last_op_id
    /\ last_action' = before'.eng.last_action
    /\ call' = [name |-> args.driver, raised |-> before'.raised]
    /\ calls' = calls + 1
    /\ pc' = IF before'.raised = "none" THEN "walking" ELSE "raised"
    /\ UNCHANGED <<N, args>>

WalkReturn ==
    /\ pc \in {"start", "walking"}
    /\ before.step >= args.steps
    /\ call' = [name |-> args.driver, raised |-> "none",
                value |-> WalkSummary(args.driver, before, args.steps, args.seed,
                                      args.init_seed)]
    /\ pc' = "returned"
    /\ UNCHANGED <<N, grid, last_op_id, last_action, calls, args, before>>

NextWalk ==
    \/ WalkStep
    \/ WalkReturn

SpecWalk == InitWalk /\ [][NextWalk]_vars

(***************************************************************************)
(* recovery_experiment, one action per pass of `for t in range(trials)`.   *)
(* `before` holds the lists the passes append to.  The experiment builds   *)
(* its engines itself, one per trial and stage: the variables of the       *)
(* engine keep the solved cube of size N.                                  *)
(***************************************************************************)
TrialCounts == {0, 1, MaxTrials}

NoiseSteps == {-1, 0, 2}

RecoverySeeds == {0, 1}

\* init_seed: None or <<seed>>
RecoveryInitSeeds == {None, <<0>>}

RecoveryArgs ==
    [trials : TrialCounts, perturb_steps : NoiseSteps, seed : RecoverySeeds,
     init_seed : RecoveryInitSeeds]

InitRecovery ==
    /\ N \in Sizes
    /\ grid = construct(N).grid
    /\ last_op_id = None
    /\ last_action = None
    /\ args \in RecoveryArgs
    /\ call = [name |-> "recovery_experiment", raised |-> "none"]
    /\ calls = 0
    /\ pc = "idle"
    /\ before = RecoveryStart

\* the checks of the arguments at the head of the call
RecoveryEnter ==
    /\ pc = "idle"
    /\ call' = [name |-> "recovery_experiment",
                raised |-> RecoveryArgumentError(N, args.trials, args.perturb_steps)]
    /\ pc' = IF call'.raised = "none" THEN "start" ELSE "raised"
    /\ UNCHANGED <<N, grid, last_op_id, last_action, calls, args, before>>

\* the pass for trial t
RecoveryTrial(t) ==
    /\ pc \in {"start", "trials"}
    /\ before' = RecoveryPass(before, N, args.perturb_steps, args.seed, args.init_seed, t)
    /\ call' = [name |-> "recovery_experiment", raised |-> before'.raised]
    /\ calls' = calls + 1
    /\ pc' = IF before'.raised = "none" THEN "trials" ELSE "raised"
    /\ UNCHANGED <<N, grid, last_op_id, last_action, args>>

\* the pass the loop makes next: trials run in the order 0, 1, ...
RecoveryNext ==
    /\ Len(before.order) < args.trials
    /\ RecoveryTrial(Len(before.order))

RecoveryReturn ==
    /\ pc \in {"start", "trials"}
    /\ Len(before.order) >= args.trials
    /\ call' = [name |-> "recovery_experiment", raised |-> "none",
                value |-> RecoverySummary(before, N, args.trials, args.perturb_steps)]
    /\ pc' = "returned"
    /\ UNCHANGED <<N, grid, last_op_id, last_action, calls, args, before>>

NextRecovery ==
    \/ RecoveryEnter
    \/ RecoveryNext
    \/ RecoveryReturn

SpecRecovery == InitRecovery /\ [][NextRecovery]_vars

(***************************************************************************)
(* The passes of the same loop taken in any order, each trial once: the    *)
(* schedule a runner is free to choose if the trials share nothing.        *)
(***************************************************************************)
TrialsLeft == (0 .. args.trials - 1) \ Range(before.order)

RecoveryAny ==
    \E t \in TrialsLeft : RecoveryTrial(t)

NextTrials ==
    \/ RecoveryEnter
    \/ RecoveryAny
    \/ RecoveryReturn

SpecTrials == InitRecovery /\ [][NextTrials]_vars

(***************************************************************************)
(* Two calls of one driver with the same arguments, one after the other in *)
(* one process.  `before` holds what the calls made so far gave: the       *)
(* exception or the summary, with the grids the engine went through.       *)
(***************************************************************************)
WalkArgs ==
    [driver : Drivers, steps : {0, MaxWalkSteps}, seed : Seeds, init_seed : WalkInitSeeds]

\* temp_schedule and energy_fn of the annealer
AnnealSettings ==
    {<<Number(0), <<"home_distance_smooth_energy">>>>,
     <<Number(1), <<"home_distance_smooth_energy">>>>,
     <<ExpCooling(MaxAnnealSteps), <<"_default_energy">>>>}

AnnealArgs ==
    [driver : {"explore_anneal_local"}, steps : {MaxAnnealSteps}, init_seed : Seeds,
     settings : AnnealSettings, init_grid : {None, <<1>>}]

ExperimentArgs ==
    [driver : {"recovery_experiment"}, trials : 1..MaxTrials, perturb_steps : {0, 2},
     seed : RecoverySeeds, init_seed : RecoveryInitSeeds]

\* init_grid of the annealer: None, or the grid randomize(seed) leaves
AnnealInitGrid(n, init_grid) ==
    IF init_grid = None THEN None ELSE randomize(construct(n), init_grid[1]).eng.grid

\* the call of the driver with the arguments a
Driven(n, a) ==
    CASE a.driver \in Drivers ->
             Walk(a.driver, n, a.steps, a.seed, a.init_seed)
      [] a.driver = "explore_anneal_local" ->
             explore_anneal_local(n, a.steps, a.init_seed, a.settings[1], a.settings[2],
                                  AnnealInitGrid(n, a.init_grid), None)
      [] a.driver = "recovery_experiment" ->
             recovery_experiment(n, a.trials, a.perturb_steps, a.seed, a.init_seed)

InitTwice ==
    /\ N \in Sizes
    /\ grid = construct(N).grid
    /\ last_op_id = None
    /\ last_action = None
    /\ args \in WalkArgs \cup AnnealArgs \cup ExperimentArgs
    /\ call = [name |-> args.driver, raised |-> "none"]
    /\ calls = 0
    /\ pc = "idle"
    /\ before = <<>>

\* one call, from its first line to its return or its exception
Drive ==
    /\ calls < MaxCalls
    /\ before' = Append(before, Driven(N, args))
    /\ call' = [name |-> args.driver, raised |-> before'[Len(before')].raised]
    /\ calls' = calls + 1
    /\ pc' = IF call'.raised = "none" THEN "returned" ELSE "raised"
    /\ UNCHANGED <<N, grid, last_op_id, last_action, args>>

NextTwice ==
    \/ Drive

SpecTwice == InitTwice /\ [][NextTwice]_vars

(***************************************************************************)
(* The loops of perturb, explore_random, explore_random_local and          *)
(* explore_anneal_local statement by statement.  pc is the statement the   *)
(* call is at, `before` the locals of the loop and the log of the calls    *)
(* made on the engine so far, in order.  The draws of the generator are    *)
(* taken from small sets.  perturb runs on the caller's engine, whose grid *)
(* the caller may have written to; the annealer calls the caller's         *)
(* energy_fn, which is handed the engine and may write to it.              *)
(***************************************************************************)
LoopDrivers == {"perturb", "explore_random", "explore_random_local", "explore_anneal_local"}

\* energy_fn of the annealer: one of the repository's, or a callable of the
\* caller that does `engine.grid[0] = engine.grid[1]` and returns 0.0
LoopEnergyFns == {<<"home_distance_smooth_energy">>, <<"writing_energy">>}

\* engine.grid[0] = engine.grid[1]
Overwritten(e) == [e EXCEPT !.grid = [e.grid EXCEPT ![0] = e.grid[1]]]

\* energy_fn(engine): the value returned and the engine as the call left it
Scored(energy_fn, e) ==
    IF energy_fn = <<"writing_energy">>
    THEN [value |-> 0, eng |-> Overwritten(e)]
    ELSE [value |-> Energy(energy_fn, e), eng |-> e]

\* the engines perturb is called on: a solved or shuffled cube, or one the
\* caller wrote a duplicate token into
PerturbedEngines(n) ==
    {construct(n), randomize(construct(n), 1).eng,
     Overwritten(construct(n))}

\* the engine at the top of the loop
LoopEngines(n, driver) ==
    IF driver = "perturb" THEN PerturbedEngines(n)
    ELSE IF driver = "explore_anneal_local" THEN {randomize(construct(n), 1).eng}
    ELSE {construct(n), randomize(construct(n), 1).eng}

\* the calls made on the engine before the loop
LoopSetupLog(driver) ==
    IF driver = "perturb" THEN <<>>
    ELSE IF driver = "explore_anneal_local" THEN <<"hash", "energy">>
    ELSE <<"hash">>

\* the locals at the top of the loop; s is energy_fn(engine) of the
\* annealer's setup
LoopStart(driver, s) ==
    [step |-> 0, log |-> LoopSetupLog(driver), proposal |-> None,
     reverting |-> FALSE, E_prev |-> s.value, invocations |-> 0, errors |-> <<>>]

InitLoop ==
    /\ N \in Sizes
    /\ \E driver \in LoopDrivers, energy_fn \in LoopEnergyFns, T \in {0, 1} :
       \E e \in LoopEngines(N, driver) :
           /\ driver # "explore_anneal_local" =>
                  energy_fn = <<"home_distance_smooth_energy">> /\ T = 0
           /\ args = [driver |-> driver, steps |-> MaxPerturbSteps,
                      energy_fn |-> energy_fn, temp_schedule |-> Number(T)]
           /\ before = LoopStart(driver, IF driver = "explore_anneal_local"
                                         THEN Scored(energy_fn, e)
                                         ELSE [value |-> 0, eng |-> e])
           /\ grid = (IF driver = "explore_anneal_local"
                      THEN Scored(energy_fn, e).eng ELSE e).grid
           /\ last_op_id = e.last_op_id
           /\ last_action = e.last_action
    /\ call = [name |-> args.driver, raised |-> "none"]
    /\ calls = 0
    /\ pc = "loop"

\* the kinds of move the driver makes
MoveKinds(driver) ==
    IF driver = "explore_random" THEN {"global"}
    ELSE IF driver = "explore_random_local" THEN {"global", "local"}
    ELSE {"local"}

\* a fault: explore_random hashes the grid right after the move
AfterMove_as(driver, r) ==
    IF r.raised # "none" THEN "raised"
    ELSE IF driver = "explore_random" THEN "hash" ELSE "audit"

\* the statement after apply or apply_local, r being what the move gave
AfterMove(driver, r) ==
    IF r.raised # "none" THEN "raised" ELSE "audit"

\* the statement after engine.audit(), r being what it gave
AfterAudit(driver, reverting, r) ==
    IF r.raised # "none" THEN "raised"
    ELSE IF driver = "perturb" THEN "loop"
    ELSE IF driver = "explore_anneal_local" /\ ~reverting THEN "score"
    ELSE "hash"

\* the engine and the statement the call goes on with
LoopLand(e, raised, next) ==
    /\ grid' = e.grid
    /\ last_op_id' = e.last_op_id
    /\ last_action' = e.last_action
    /\ call' = [name |-> args.driver, raised |-> raised]
    /\ pc' = next

\* the draws of a pass and its move; a radius no center is in bounds for
\* makes rng.randint raise before the move
StmtMove(kind, op_id, radius, center) ==
    /\ pc = "loop"
    /\ before.step < args.steps
    /\ kind \in MoveKinds(args.driver)
    /\ center \in (IF kind = "global" THEN {None} ELSE ProposalCenters(COORDS[N].k, radius))
    /\ calls' = calls + 1
    /\ IF kind = "local" /\ center = None
       THEN /\ before' = [before EXCEPT !.step = @ + 1]
            /\ LoopLand(Engine, "ValueError: empty range for randrange()", "raised")
       ELSE /\ before' = [before EXCEPT !.step = @ + 1,
                                        !.log = Append(@, IF kind = "global" THEN "apply"
                                                          ELSE "apply_local"),
                                        !.proposal = <<op_id, center, radius>>,
                                        !.reverting = FALSE]
            /\ \E r \in {Perform(Engine, [kind |-> kind, op_id |-> op_id,
                                           center |-> center, radius |-> radius])} :
                   LoopLand(r.eng, r.raised, AfterMove(args.driver, r))
    /\ UNCHANGED <<N, args>>

\* engine.audit()
StmtAudit ==
    /\ pc = "audit"
    /\ \E r \in {audit(Engine)} :
           /\ before' = [before EXCEPT !.log = Append(@, IF r.raised = "none" THEN "audit"
                                                         ELSE "audit failed")]
           /\ LoopLand(r.eng, r.raised, AfterAudit(args.driver, before.reverting, r))
    /\ UNCHANGED <<N, calls, args>>

\* `if T < 0: raise ValueError(...)`
ScoreError(T) == IF T < 0 THEN "ValueError: temperature must be >= 0" ELSE "none"

\* the statement after the acceptance test of the annealer
AfterScore(dE, T, coin) ==
    IF T < 0 THEN "raised" ELSE IF Accepts(dE, T, coin) THEN "hash" ELSE "revert"

\* E1 = energy_fn(engine), the temperature and the acceptance test; coin is
\* rng.random() < math.exp(-dE / T); invocations counts the calls of a
\* caller's schedule function and errors keeps what they raised
StmtScore(coin) ==
    /\ pc = "score"
    /\ \E s \in {Scored(args.energy_fn, Engine)},
          t \in {Temperature(args.temp_schedule, before.step, before.invocations)} :
           IF t.raised # "none"
           THEN /\ before' = [before EXCEPT !.log = Append(@, "energy"),
                                            !.invocations = t.called,
                                            !.errors = @ \o t.errors]
                /\ LoopLand(s.eng, t.raised, "raised")
           ELSE /\ before' = [before EXCEPT
                                 !.log = Append(@, "energy"),
                                 !.invocations = t.called,
                                 !.errors = @ \o t.errors,
                                 !.E_prev = IF AfterScore(s.value - @, t.value[1], coin) = "hash"
                                            THEN s.value ELSE @]
                /\ LoopLand(s.eng, ScoreError(t.value[1]),
                            AfterScore(s.value - before.E_prev, t.value[1], coin))
    /\ UNCHANGED <<N, calls, args>>

\* apply_local of the inverse triple
AnnealUndone(e, inv) ==
    IF inv.raised # "none"
    THEN Raise(e, inv.raised)
    ELSE apply_local(e, inv.value[1], inv.value[2], inv.value[3])

AnnealUndo(e, proposal) ==
    AnnealUndone(e, inverse_local(e, proposal[1], proposal[2], proposal[3]))

\* engine.apply_local(*engine.inverse_local(op_id, center, radius))
StmtRevert ==
    /\ pc = "revert"
    /\ before' = [before EXCEPT !.log = Append(@, "apply_local"), !.reverting = TRUE]
    /\ \E r \in {AnnealUndo(Engine, before.proposal)} :
           LoopLand(r.eng, r.raised, AfterMove(args.driver, r))
    /\ UNCHANGED <<N, calls, args>>

\* h = engine.hash() and the bookkeeping of the visit
StmtHash ==
    /\ pc = "hash"
    /\ before' = [before EXCEPT !.log = Append(@, "hash"), !.reverting = FALSE]
    /\ LoopLand(Engine, hash(Engine).raised,
                IF hash(Engine).raised = "none" THEN "loop" ELSE "raised")
    /\ UNCHANGED <<N, calls, args>>

\* the loop is over
StmtReturn ==
    /\ pc = "loop"
    /\ before.step >= args.steps
    /\ call' = [name |-> args.driver, raised |-> "none"]
    /\ pc' = "returned"
    /\ UNCHANGED <<N, grid, last_op_id, last_action, calls, args, before>>

NextLoop ==
    \/ \E kind \in {"global", "local"}, op_id \in ProposalOps, radius \in ProposalRadii,
          center \in ProposalCenterArgs : StmtMove(kind, op_id, radius, center)
    \/ StmtAudit
    \/ \E coin \in BOOLEAN : StmtScore(coin)
    \/ StmtRevert
    \/ StmtHash
    \/ StmtReturn

SpecLoop == InitLoop /\ [][NextLoop]_vars

(***************************************************************************)
(* Two global moves on one engine, and on a second engine holding the      *)
(* same start grid the one move that build_compose_table names for them.   *)
(***************************************************************************)
InitProduct ==
    /\ N \in Sizes
    /\ \E e \in StartEngines(N) :
           StartAt(e, IF e = construct(N) THEN "construct" ELSE "randomize")
    /\ args \in [a : 0..23, b : 0..23]
    /\ before = None

\* eng.apply(b)
ProductFirst ==
    /\ pc = "start"
    /\ Land("apply", apply(Engine, args.b))
    /\ before' = [start |-> Engine, single |-> None]
    /\ pc' = "first"
    /\ UNCHANGED <<N, args>>

\* eng.apply(a)
ProductSecond ==
    /\ pc = "first"
    /\ Land("apply", apply(Engine, args.a))
    /\ pc' = "second"
    /\ UNCHANGED <<N, args, before>>

\* other.apply(table[a][b]), other holding the start grid
ProductSingle ==
    /\ pc = "second"
    /\ before' = [before EXCEPT
                     !.single = apply(before.start, compose_entry(args.a, args.b).value)]
    /\ pc' = "compared"
    /\ UNCHANGED <<N, grid, last_op_id, last_action, call, calls, args>>

NextProduct == ProductFirst \/ ProductSecond \/ ProductSingle

SpecProduct == InitProduct /\ [][NextProduct]_vars

(***************************************************************************)
(* A local move on the region that is the whole lattice, center (0, 0, 0)  *)
(* and radius N // 2, and the global move of the same op id on a second    *)
(* engine holding the same start grid.                                     *)
(***************************************************************************)
InitWhole ==
    /\ N \in Sizes
    /\ \E e \in StartEngines(N) :
           StartAt(e, IF e = construct(N) THEN "construct" ELSE "randomize")
    /\ args \in [op_id : 0..23, center : {<<0, 0, 0>>}, radius : {N \div 2}]
    /\ before = None

\* eng.apply_local(op_id, (0, 0, 0), N // 2)
WholeLocal ==
    /\ pc = "start"
    /\ Land("apply_local", apply_local(Engine, args.op_id, args.center, args.radius))
    /\ before' = [start |-> Engine, global |-> None]
    /\ pc' = "local"
    /\ UNCHANGED <<N, args>>

\* other.apply(op_id), other holding the start grid
WholeGlobal ==
    /\ pc = "local"
    /\ before' = [before EXCEPT !.global = apply(before.start, args.op_id)]
    /\ pc' = "compared"
    /\ UNCHANGED <<N, grid, last_op_id, last_action, call, calls, args>>

NextWhole == WholeLocal \/ WholeGlobal

SpecWhole == InitWhole /\ [][NextWhole]_vars

(***************************************************************************)
(* explore_random on walks long enough to visit more states than the       *)
(* rotation group has elements, one action per pass of the loop.           *)
(***************************************************************************)
OrbitStepCounts == {NUM_ROTATIONS - 1, NUM_ROTATIONS, MaxOrbitSteps}

InitOrbit ==
    /\ N \in Sizes
    /\ \E steps \in OrbitStepCounts, seed \in Seeds, init_seed \in WalkInitSeeds :
           /\ args = [driver |-> "explore_random", steps |-> steps, seed |-> seed,
                      init_seed |-> init_seed]
           /\ StartAt(WalkSetup(construct(N), init_seed), "explore_random")
           /\ before = WalkStart(WalkSetup(construct(N), init_seed), Random(seed))

NextOrbit ==
    \/ WalkStep
    \/ WalkReturn

SpecOrbit == InitOrbit /\ [][NextOrbit]_vars

(***************************************************************************)
(* explore_anneal_local statement by statement with a function of the      *)
(* caller as temp_schedule: one that returns, one that raises, one that    *)
(* returns None, and ones that do so at one invocation and not the next.   *)
(***************************************************************************)
ScheduleFunctions ==
    {ScheduleFunction(<<Returns(<<1>>)>>),
     ScheduleFunction(<<Raises("RuntimeError")>>),
     ScheduleFunction(<<Raises("TypeError")>>),
     ScheduleFunction(<<Returns(None)>>),
     ScheduleFunction(<<Raises("TypeError"), Returns(<<1>>)>>),
     ScheduleFunction(<<Returns(<<0>>), Raises("TypeError"), Returns(<<0>>)>>),
     ScheduleFunction(<<Returns(<<0>>), Raises("TypeError"), Raises("RuntimeError")>>)}

InitSchedule ==
    /\ N \in Sizes
    /\ \E temp_schedule \in ScheduleFunctions :
       \E e \in LoopEngines(N, "explore_anneal_local") :
           /\ args = [driver |-> "explore_anneal_local", steps |-> MaxPerturbSteps,
                      energy_fn |-> <<"home_distance_smooth_energy">>,
                      temp_schedule |-> temp_schedule]
           /\ before = LoopStart("explore_anneal_local",
                                 Scored(<<"home_distance_smooth_energy">>, e))
           /\ grid = e.grid
           /\ last_op_id = e.last_op_id
           /\ last_action = e.last_action
    /\ call = [name |-> "explore_anneal_local", raised |-> "none"]
    /\ calls = 0
    /\ pc = "loop"

SpecSchedule == InitSchedule /\ [][NextLoop]_vars

(***************************************************************************)
(* Properties.                                                             *)
(***************************************************************************)
\* C1: in every state reached from construct(N) by any sequence of
\* randomize, apply, apply_local, perturb and audit calls, whether they
\* returned or raised, the grid has N^3 cells and holds each of the tokens
\* 0..N^3-1 exactly once.
C1_GridIsPermutation ==
    /\ DOMAIN grid = 0..(n3(N) - 1)
    /\ Cardinality(DOMAIN grid) = n3(N)
    /\ Range(grid) = 0..(n3(N) - 1)

\* a perturb that raised at a later step, after its earlier steps had moved
\* tokens
C1_Witness ==
    /\ calls = 1
    /\ call.name = "perturb"
    /\ call.raised = "ValueError: empty range for randrange()"
    /\ grid # IdentityGrid(N)

\* C2: audit() leaves the grid, last_action, last_op_id and the canonical
\* hash as they were when it was called, whether it returns or raises.
C2_AuditNonMutating ==
    pc = "audited" =>
        /\ grid = before.grid
        /\ last_action = before.last_action
        /\ last_op_id = before.last_op_id
        /\ hash(Engine) = before.hash

\* an audit that raised on an engine whose last action was a global rotation
\* that is not its own inverse, so that the round trip had something to undo
C2_Witness ==
    /\ pc = "audited"
    /\ call.raised # "none"
    /\ last_action # None
    /\ last_action[1] = "global"
    /\ inverse_op(Engine, last_action[2]).value # last_action[2]

\* C3: for every grid and every op id in 0..23, apply(op) followed by
\* apply(inverse_op(op)) returns and leaves the grid and the hash as they
\* were before the first call.
C3_GlobalRoundTrip ==
    (pc = "undone" /\ args.kind = "global") =>
        /\ call.raised = "none"
        /\ grid = before.grid
        /\ hash(Engine) = before.hash

\* a round trip of an op that is not its own inverse, on a shuffled 5-lattice
C3_Witness ==
    /\ pc = "undone"
    /\ args.kind = "global"
    /\ N = 5
    /\ last_action # <<"global", args.op_id>>
    /\ grid # IdentityGrid(N)

\* C4: for every grid and every (op, center, radius) that apply_local
\* accepts, apply_local(op, center, radius) followed by
\* apply_local(*inverse_local(op, center, radius)) returns and leaves the
\* grid and the hash as they were before the first call.
C4_LocalRoundTrip ==
    (pc = "undone" /\ args.kind = "local") =>
        /\ call.raised = "none"
        /\ grid = before.grid
        /\ hash(Engine) = before.hash

\* a round trip on a region off the origin of the 5-lattice, of an op that is
\* not its own inverse
C4_Witness ==
    /\ pc = "undone"
    /\ args.kind = "local"
    /\ args.center # <<0, 0, 0>>
    /\ last_action # <<"local", args.op_id, args.center, args.radius>>
    /\ grid # IdentityGrid(N)

\* C5: apply_local changes no cell whose Chebyshev distance from the center
\* is greater than the radius.
C5_OutsideRegionUnchanged ==
    (pc = "moved" /\ args.kind = "local") =>
        \A i \in DOMAIN grid :
            Skipped(args.center, args.radius, COORDS[N].index_to_coord[i])
                => grid[i] = before.grid[i]

\* a local rotation that moved tokens and left cells outside its region
C5_Witness ==
    /\ pc = "moved"
    /\ args.kind = "local"
    /\ call.raised = "none"
    /\ grid # before.grid
    /\ \E i \in DOMAIN grid :
           Skipped(args.center, args.radius, COORDS[N].index_to_coord[i])

\* C6: for N = 3 and N = 5 and every op id, the index map built at
\* construction has N^3 entries and is a bijection on 0..N^3-1.
C6_IndexMapsBijective ==
    /\ BUILT_ROT_INDEX_MAPS[N].raised = "none"
    /\ DOMAIN rot_index_map[N] = 0..23
    /\ \A op_id \in DOMAIN rot_index_map[N] :
           /\ DOMAIN rot_index_map[N][op_id] = 0..(n3(N) - 1)
           /\ Range(rot_index_map[N][op_id]) = 0..(n3(N) - 1)

\* the 5-lattice's map of an op that moves cells
C6_Witness ==
    /\ N = 5
    /\ pc = "composed"
    /\ args.a \in DOMAIN rot_index_map[N]
    /\ rot_index_map[N][args.a] # IdentityGrid(N)

\* C7: the rotation list holds exactly 24 pairwise distinct matrices, each of
\* determinant +1, and the transpose of each is one of the 24.
C7_TwentyFourProperRotations ==
    /\ generate_proper_rotations.raised = "none"
    /\ DOMAIN ROTATIONS = 0..23
    /\ Cardinality(Range(ROTATIONS)) = 24
    /\ args.a # args.b => ROTATIONS[args.a] # ROTATIONS[args.b]
    /\ det3(ROTATIONS[args.a]) = 1
    /\ transpose(ROTATIONS[args.a]) \in Range(ROTATIONS)

\* a rotation whose transpose is another rotation of the list
C7_Witness ==
    /\ pc = "inverted"
    /\ args.a \in DOMAIN ROTATIONS
    /\ transpose(ROTATIONS[args.a]) # ROTATIONS[args.a]
    /\ transpose(ROTATIONS[args.a]) \in Range(ROTATIONS)

\* C8: inverse_op(inverse_op(op)) = op, and ROTATIONS[op] times
\* ROTATIONS[inverse_op(op)] is the identity matrix.
C8_InverseIsInvolution ==
    pc = "inverted" =>
        /\ before.raised = "none"
        /\ before.value \in DOMAIN ROTATIONS
        /\ inverse_op(Engine, before.value) = [raised |-> "none", value |-> args.a]
        /\ mat_mul(ROTATIONS[args.a], ROTATIONS[before.value])
               = << <<1, 0, 0>>, <<0, 1, 0>>, <<0, 0, 1>> >>

\* the inverse of an op that is not its own inverse
C8_Witness ==
    /\ pc = "inverted"
    /\ before.raised = "none"
    /\ before.value # args.a

\* C9: every product ROTATIONS[a] times ROTATIONS[b] is one of the 24;
\* build_compose_table does not raise and its entries are in 0..23.
C9_Closure ==
    /\ build_compose_table.raised = "none"
    /\ pc = "composed" =>
           /\ before.raised = "none"
           /\ before.value \in 0..23
           /\ mat_mul(ROTATIONS[args.a], ROTATIONS[args.b]) \in Range(ROTATIONS)
           /\ build_compose_table.value[args.a][args.b] = before.value

\* a product of two rotations that is neither of them
C9_Witness ==
    /\ pc = "composed"
    /\ before.raised = "none"
    /\ before.value \notin {args.a, args.b}

\* C10: exactly one of the 24 op ids is the identity: its matrix is the
\* identity matrix and its index map is the identity map, no other op has
\* either, and apply of it leaves any grid and its hash unchanged.
C10_OneIdentityOp ==
    /\ Cardinality({op_id \in DOMAIN ROTATIONS :
                       ROTATIONS[op_id] = << <<1, 0, 0>>, <<0, 1, 0>>, <<0, 0, 1>> >>}) = 1
    /\ \A op_id \in DOMAIN ROTATIONS :
           (rot_index_map[N][op_id] = IdentityGrid(N))
               <=> (ROTATIONS[op_id] = << <<1, 0, 0>>, <<0, 1, 0>>, <<0, 0, 1>> >>)
    /\ (/\ pc = "moved"
        /\ args.kind = "global"
        /\ ROTATIONS[args.op_id] = << <<1, 0, 0>>, <<0, 1, 0>>, <<0, 0, 1>> >>)
           => /\ call.raised = "none"
              /\ grid = before.grid
              /\ hash(Engine) = before.hash

\* the identity op applied to a shuffled grid
C10_Witness ==
    /\ pc = "moved"
    /\ args.kind = "global"
    /\ ROTATIONS[args.op_id] = << <<1, 0, 0>>, <<0, 1, 0>>, <<0, 0, 1>> >>
    /\ call.raised = "none"
    /\ grid # IdentityGrid(N)

\* C11: audit() raises AssertionError for every grid that is not a
\* permutation of 0..N^3-1 (a repeated token, a token out of range, a wrong
\* length), whatever last_action is, and leaves the corrupted grid as it was.
C11_AuditRejectsNonPermutation ==
    (/\ pc = "audited"
     /\ ~(/\ DOMAIN before.grid = 0..(n3(N) - 1)
          /\ Range(before.grid) = 0..(n3(N) - 1)))
        => /\ call.raised \in AssertionErrors
           /\ grid = before.grid

\* C12: apply_local(op_id, center, radius) returns exactly when
\* 0 <= op_id < 24, center is a lattice coordinate, radius >= 1 and
\* |center axis| + radius <= k on all three axes; every other argument list
\* raises ValueError, the reason being the first that applies of: bad op id,
\* invalid center, non-positive radius, region out of bounds.
C12_LocalArgumentChecks ==
    (pc = "attempted" /\ args.kind = "local") =>
        call.raised =
            IF ~(0 <= args.op_id /\ args.op_id < 24)
            THEN "ValueError: op_id must be in [0..23]"
            ELSE IF \E axis \in 1..3 : abs(args.center[axis]) > (N - 1) \div 2
            THEN "ValueError: center must be a valid lattice coordinate"
            ELSE IF args.radius < 1
            THEN "ValueError: radius must be >= 1"
            ELSE IF \E axis \in 1..3 :
                        abs(args.center[axis]) + args.radius > (N - 1) \div 2
            THEN "ValueError: region out of bounds"
            ELSE "none"

\* a call with a valid op id and an invalid center and radius, rejected for
\* its center
C12_Witness ==
    /\ pc = "attempted"
    /\ args.kind = "local"
    /\ args.op_id = 5
    /\ args.radius < 1
    /\ args.center[1] = 3
    /\ call.raised = "ValueError: center must be a valid lattice coordinate"

\* C13: a rejected mutating call leaves the engine untouched: when
\* apply(op_id) with op_id outside 0..23, or apply_local with an invalid
\* argument, raises, it raises ValueError and the grid, last_action and the
\* canonical hash are as they were before the call.
C13_RejectedCallLeavesEngine ==
    (pc = "attempted" /\ call.raised # "none") =>
        /\ call.raised \in ValueErrors
        /\ grid = before.grid
        /\ last_action = before.last_action
        /\ hash(Engine) = before.hash

\* an apply_local rejected for its region, on an engine whose last action was
\* a global move
C13_Witness ==
    /\ pc = "attempted"
    /\ args.kind = "local"
    /\ call.raised = "ValueError: region out of bounds"
    /\ before.last_action = <<"global", 5>>
    /\ last_action = <<"global", 5>>

\* C14: randomize(seed) leaves a grid fixed by (N, seed) alone: whatever the
\* grid was before the call, it is the grid a fresh engine of the same N
\* holds after randomize with the same seed.
C14_RandomizeFixedBySeed ==
    pc = "randomized" => grid = randomize(construct(N), args.seed).eng.grid

\* C15: last_action describes the most recent successful state-changing
\* call: it is None after construct and after randomize, ("global", op)
\* after apply(op), ("local", op, c, r) after apply_local(op, c, r), and
\* audit and rejected calls leave it as it was.
C15_LastActionTracksLastMove ==
    /\ construct(N).last_action = None
    /\ pc = "start" => last_action = None
    /\ pc = "randomized" => last_action = None
    /\ (pc \in {"moved", "attempted"} /\ call.raised = "none") =>
           last_action = IF args.kind = "global"
                         THEN <<"global", args.op_id>>
                         ELSE <<"local", args.op_id, args.center, args.radius>>
    /\ (pc = "attempted" /\ call.raised # "none") => last_action = before.last_action
    /\ pc = "audited" => last_action = before.last_action

\* a randomize that cleared the record of a local move
C15_Witness ==
    /\ pc = "randomized"
    /\ before.last_action = <<"local", 5, <<0, 0, 0>>, 1>>
    /\ last_action = None

C17_BuildFailsOnBadSize ==
    pc \in {"built", "constructed"} =>
        /\ (call.raised = "ValueError: N must be odd and >= 3") <=> (N < 3 \/ N % 2 = 0)
        /\ (N >= 3 /\ N % 2 = 1) => call.raised = "none"
        /\ call.raised = before.raised

\* the construction of an engine of an even size above 3 has failed
C17_Witness ==
    /\ pc = "constructed"
    /\ N = 4
    /\ call.raised = "ValueError: N must be odd and >= 3"

\* C18: for odd N >= 3 and k = (N-1)/2 the index of the coordinate (x, y, z)
\* is (x+k)*N^2 + (y+k)*N + (z+k), its lexicographic rank, and
\* index_to_coord and coord_to_index are mutually inverse bijections
\* between 0..N^3-1 and the N^3 coordinates.
C18_IndexIsLexicographicRank ==
    /\ (pc \in {"built", "constructed"} /\ before.raised = "none") =>
           /\ before.k * 2 = N - 1
           /\ DOMAIN before.index_to_coord = 0..(n3(N) - 1)
           /\ DOMAIN before.coord_to_index = LatticeCoords(before.k)
           /\ Cardinality(DOMAIN before.coord_to_index) = n3(N)
           /\ \A i \in DOMAIN before.index_to_coord :
                  before.coord_to_index[before.index_to_coord[i]] = i
           /\ \A c \in DOMAIN before.coord_to_index :
                  before.index_to_coord[before.coord_to_index[c]] = c
    /\ pc = "looked up" =>
           /\ args.index = (args.coord[1] + before.k) * N * N
                              + (args.coord[2] + before.k) * N
                              + (args.coord[3] + before.k)
           /\ \A c \in DOMAIN before.coord_to_index :
                  TupleLess(c, args.coord) <=> before.coord_to_index[c] < args.index

\* a coordinate whose index tells the three axes apart
C18_Witness ==
    /\ pc = "looked up"
    /\ N = 5
    /\ args.coord = <<-1, 2, 0>>
    /\ args.index = 47

\* C19: for every valid N every move perturb draws has an op_id in 0..23, a
\* radius in {1, 2} and a center that keeps the region in bounds, so neither
\* the draw nor the apply_local after it raises and each of the steps moves
\* is applied and audited: a perturb call with steps >= 0 returns.
C19_PerturbDrawsNeverRaise ==
    call.name = "perturb" => call.raised \in {"none", "ValueError: steps must be >= 0"}

\* C20: in explore_anneal_local a proposal with dE <= 0 is always accepted,
\* and at a step whose schedule value T is 0 a proposal with dE > 0 is always
\* rejected; hence under an all-zero schedule the recorded energies never
\* increase.
C20_AnnealAcceptanceRule ==
    (pc \in {"annealing", "returned"} /\ before.step >= 1) =>
        /\ before.T = _temperature(args.temp_schedule, before.step)
        /\ before.dE <= 0 =>
               /\ before.accept
               /\ before.energies[before.step] = before.energies[before.step - 1] + before.dE
               /\ last_action # None
               /\ before.dE = home_distance_smooth_energy(Engine)
                                  - before.energies[before.step - 1]
        /\ (before.T = 0 /\ before.dE > 0) =>
               /\ ~before.accept
               /\ before.energies[before.step] = before.energies[before.step - 1]
        /\ (\A s \in 1..args.steps : _temperature(args.temp_schedule, s) = 0) =>
               \A s \in 1..before.step : before.energies[s] <= before.energies[s - 1]

\* at temperature 0 a worsening proposal was turned down after an improving
\* one had been taken
C20_Witness ==
    /\ pc = "annealing"
    /\ before.step = 2
    /\ args.temp_schedule = Number(0)
    /\ before.energies[1] < before.energies[0]
    /\ before.dE > 0
    /\ ~before.accept
    /\ before.energies[2] = before.energies[1]

\* C21: when an annealing proposal is rejected the engine is reverted by the
\* inverse of the move and audited again: the grid and the hash at the end
\* of the step are those at the end of the step before, and the energy
\* recorded for the step is that of the step before.
C21_RejectedProposalReverted ==
    (pc = "annealing" /\ before.step >= 1 /\ ~before.accept) =>
        /\ grid = call.prior.grid
        /\ hash(Engine) = call.prior.hash
        /\ before.energies[before.step] = before.energies[before.step - 1]
        /\ before.energies[before.step] = home_distance_smooth_energy(Engine)
        /\ last_action = <<"local", inverse_op(Engine, before.proposal[1]).value,
                           before.proposal[2], before.proposal[3]>>

\* a proposal that moved tokens was rejected and the grid is back
C21_Witness ==
    /\ pc = "annealing"
    /\ before.step = 2
    /\ ~before.accept
    /\ before.dE > 0
    /\ before.T = 1
    /\ grid = call.prior.grid
    /\ grid # randomize(construct(N), args.init_seed).eng.grid

\* C22: with a stop_hash, explore_anneal_local stops at the first step, step
\* 0 included, whose end-of-step hash is stop_hash: no pass is made after it,
\* stopped_step and steps_run are that step and final_hash is stop_hash; when
\* no step reaches it, stopped_step is None and steps_run is steps.
C22_StopsAtFirstTargetHash ==
    (args.stop_hash # None /\ pc \in {"start", "annealing", "returned"}) =>
        /\ args.stop_hash \in DOMAIN before.first_seen_step =>
               /\ before.stopped_step = <<before.first_seen_step[args.stop_hash]>>
               /\ before.step = before.first_seen_step[args.stop_hash]
               /\ before.proposed = before.step
               /\ hash(Engine).value = args.stop_hash
        /\ args.stop_hash \notin DOMAIN before.first_seen_step =>
               before.stopped_step = None
        /\ pc = "returned" =>
               /\ call.value.stopped_step = before.stopped_step
               /\ call.value.steps_run =
                      (IF args.stop_hash \in DOMAIN before.first_seen_step
                       THEN before.first_seen_step[args.stop_hash] ELSE args.steps)
               /\ call.value.proposed = call.value.steps_run
               /\ Cardinality(DOMAIN call.value.energies) = call.value.steps_run + 1
               /\ before.stopped_step # None => call.value.final_hash = args.stop_hash

\* a run of two steps that returned after its first, the target reached
C22_Witness ==
    /\ pc = "returned"
    /\ args.steps = 2
    /\ call.value.stopped_step = <<1>>
    /\ call.value.steps_run = 1
    /\ call.value.proposed = 1
    /\ call.value.final_hash = args.stop_hash
    /\ call.value.final_hash # hash(randomize(construct(N), args.init_seed).eng).value

C27_BadInitGridRaises ==
    (pc # "idle" /\ args.energy_fn # None /\ args.init_grid # None) =>
        /\ Cardinality(DOMAIN args.init_grid) # n3(N) =>
               /\ pc = "raised"
               /\ call.raised = "ValueError: init_grid length mismatch"
               /\ before.proposed = 0 /\ before.energies = <<>>
        /\ (/\ Cardinality(DOMAIN args.init_grid) = n3(N)
            /\ Range(args.init_grid) # 0..(n3(N) - 1)) =>
               /\ pc = "raised"
               /\ call.raised \in {"AssertionError: grid tokens not unique",
                                    "AssertionError: grid tokens out of range"}
               /\ before.proposed = 0 /\ before.energies = <<>>

\* the hash of the engine at the end of step s of the walk
TrailHash(s) == hash([construct(N) EXCEPT !.grid = before.trail[s]]).value

\* the steps whose hash is that of an earlier step or of the initial state
RepeatSteps == {s \in 1..before.step : \E t \in 0..(s - 1) : TrailHash(t) = TrailHash(s)}

FirstRepeat == CHOOSE s \in RepeatSteps : \A t \in RepeatSteps : s <= t

\* the step at which the hash of step s was first seen
FirstSeen(s) ==
    CHOOSE t \in 0..s : TrailHash(t) = TrailHash(s)
                           /\ \A u \in 0..(t - 1) : TrailHash(u) # TrailHash(s)

\* C29: in explore_random and explore_random_local first_repeat_step is the
\* first step whose hash is that of an earlier step or of the initial state,
\* estimated_cycle_length is that step minus the step at which the hash was
\* first seen, so that 1 <= estimated_cycle_length <= first_repeat_step, both
\* are None when no hash repeats, and unique_state_count is the number of
\* distinct hashes among the initial state and all steps.
C29_RepeatAndCycleBookkeeping ==
    (pc \in {"start", "walking", "returned"}) =>
        /\ RepeatSteps = {} =>
               before.first_repeat_step = None /\ before.cycle_length = None
        /\ RepeatSteps # {} =>
               /\ before.first_repeat_step = <<FirstRepeat>>
               /\ before.cycle_length = <<FirstRepeat - FirstSeen(FirstRepeat)>>
               /\ 1 <= before.cycle_length[1]
               /\ before.cycle_length[1] <= FirstRepeat
        /\ Cardinality(DOMAIN before.first_seen_step)
               = Cardinality({TrailHash(s) : s \in 0..before.step})
        /\ pc = "returned" =>
               /\ call.value.first_repeat_step = before.first_repeat_step
               /\ call.value.estimated_cycle_length = before.cycle_length
               /\ call.value.unique_state_count
                      = Cardinality({TrailHash(s) : s \in 0..before.step})

\* a walk of eight steps whose sixth step came back to the state of the
\* third and which repeated a state once more after that
C29_Witness ==
    /\ pc = "returned"
    /\ args.steps = 8
    /\ call.value.first_repeat_step = <<6>>
    /\ call.value.estimated_cycle_length = <<3>>
    /\ call.value.unique_state_count = 7

\* C25: a negative step count is surfaced as ValueError by every operation
\* that takes one: a driver called with steps < 0 raises instead of
\* returning a result.
C25_NegativeStepsRaise ==
    args.steps < 0 => (pc # "returned" /\ (pc # "start" => call.raised # "none"))


\* C23: recovery_experiment with perturb_steps = 0 and arguments that pass
\* its checks does not raise; every trial it records has recovered_same_hash
\* true, recovery_steps 0 and final_hash = basin_hash, and the summary it
\* returns has recovery_rate 1.0.
ZeroNoiseRecord(r) ==
    /\ r.recovered_same_hash
    /\ r.recovery_steps = <<0>>
    /\ r.final_hash = r.basin_hash

C23_ZeroNoiseRecovers ==
    (args.perturb_steps = 0 /\ pc # "idle" /\ args.trials >= 1) =>
        /\ pc # "raised"
        /\ \A i \in DOMAIN before.per_trial : ZeroNoiseRecord(before.per_trial[i])
        /\ pc = "returned" =>
               /\ call.value.recovery_rate = <<args.trials, args.trials>>
               /\ Len(call.value.per_trial) = args.trials

\* what holds of the calls on N = 5, where no radius drawn is out of range
C23_ZeroNoiseRecoversWhenReturned ==
    (args.perturb_steps = 0 /\ pc # "idle" /\ args.trials >= 1 /\ N = 5) =>
        /\ pc # "raised"
        /\ \A i \in DOMAIN before.per_trial : ZeroNoiseRecord(before.per_trial[i])
        /\ pc = "returned" =>
               /\ call.value.recovery_rate = <<args.trials, args.trials>>
               /\ Len(call.value.per_trial) = args.trials

C23_Returned == pc = "returned" /\ args.perturb_steps = 0 /\ args.trials = MaxTrials

\* C30: whatever order the passes of the trial loop are taken in, the record
\* appended for trial t is the record of Trial(N, perturb_steps, seed,
\* init_seed, t), which has neither the number of trials nor the lists of
\* the other trials among its arguments, and a pass raises exactly what its
\* own trial raises.
PassOf(i) == Trial(N, args.perturb_steps, args.seed, args.init_seed, before.order[i])

MoveCalls == {"apply", "apply_local"}

C28_AuditFollowsEveryMove ==
    args.driver \in LoopDrivers =>
        \A i \in DOMAIN before.log :
            /\ before.log[i] \in MoveCalls =>
                   IF i < Len(before.log)
                   THEN before.log[i + 1] \in {"audit", "audit failed"}
                   ELSE pc = "audit"
            /\ before.log[i] = "audit failed" =>
                   /\ i = Len(before.log)
                   /\ pc = "raised"
                   /\ call.raised \in AssertionErrors

\* a rejected proposal of the annealer was reverted and audited, and the
\* run went on to its end
C28_Witness ==
    /\ args.driver = "explore_anneal_local"
    /\ pc = "returned"
    /\ \E i \in DOMAIN before.log :
           /\ i + 4 <= Len(before.log)
           /\ before.log[i] = "apply_local" /\ before.log[i + 1] = "audit"
           /\ before.log[i + 2] = "energy"
           /\ before.log[i + 3] = "apply_local" /\ before.log[i + 4] = "audit"

\* an audit failed after the first move of a run and ended it
C28_FailedAudit ==
    /\ pc = "raised"
    /\ before.log # <<>>
    /\ before.log[Len(before.log)] = "audit failed"
    /\ before.step = 1

\* C32: at the end of an annealing run best_energy is the least of the
\* recorded energies and best_step the first step that energy is recorded
\* at; the same holds of the running best at the end of every step.
LeastOf(energies) ==
    CHOOSE m \in Range(energies) : \A v \in Range(energies) : m <= v

FirstStepOf(energies, E) ==
    CHOOSE s \in DOMAIN energies :
        /\ energies[s] = E
        /\ \A t \in DOMAIN energies : energies[t] = E => s <= t

C32_BestIsFirstMinimum ==
    /\ (call.name = "explore_anneal_local" /\ pc \in {"start", "annealing"}) =>
           /\ before.best_E = LeastOf(before.energies)
           /\ before.best_step = FirstStepOf(before.energies, before.best_E)
    /\ (call.name = "explore_anneal_local" /\ pc = "returned") =>
           /\ call.value.best_energy = LeastOf(call.value.energies)
           /\ call.value.best_step =
                  FirstStepOf(call.value.energies, call.value.best_energy)

\* the second step improved on the first, which improved on the start
C32_Witness ==
    /\ pc = "returned"
    /\ call.name = "explore_anneal_local"
    /\ call.value.energies[2] < call.value.energies[1]
    /\ call.value.energies[1] < call.value.energies[0]
    /\ call.value.best_step = 2

\* C38: at the end of every annealing step, accepted or rejected, the last
\* recorded energy is the energy function's value on the engine's grid, and
\* the E_final returned is its value on final_grid.
C38_LastEnergyIsEnergyOfGrid ==
    /\ (call.name = "explore_anneal_local" /\ pc \in {"start", "annealing"}) =>
           before.energies[before.step] = Energy(before.energy_fn, Engine)
    /\ (call.name = "explore_anneal_local" /\ pc = "returned") =>
           /\ call.value.final_grid = grid
           /\ call.value.E_final =
                  Energy(before.energy_fn, [Engine EXCEPT !.grid = call.value.final_grid])

\* a run whose first proposal was accepted and changed the energy and whose
\* second was rejected
C38_Witness ==
    /\ pc = "returned"
    /\ call.name = "explore_anneal_local"
    /\ before.step = 2
    /\ ~before.accept
    /\ before.dE > 0
    /\ call.value.energies[1] # call.value.energies[0]
    /\ call.value.E_final = call.value.energies[1]

\* C39: in every annealing summary, early-stopped or not, proposed equals
\* steps_run, accepted <= proposed, energies holds steps_run + 1 values, the
\* visit counts sum to steps_run + 1, and unique_state_count + repeat_visits
\* equals steps_run + 1.
RECURSIVE SumOver(_, _)
\* the sum of the values of the dict f over the keys ks
SumOver(f, ks) ==
    IF ks = {} THEN 0
    ELSE f[CHOOSE k \in ks : TRUE] + SumOver(f, ks \ {CHOOSE k \in ks : TRUE})

C39_SummaryCountersConsistent ==
    (call.name = "explore_anneal_local" /\ pc = "returned") =>
        /\ call.value.proposed = call.value.steps_run
        /\ call.value.accepted <= call.value.proposed
        /\ call.value.accepted >= 0
        /\ Cardinality(DOMAIN call.value.energies) = call.value.steps_run + 1
        /\ SumOver(call.value.visit_counts, DOMAIN call.value.visit_counts)
               = call.value.steps_run + 1
        /\ call.value.unique_state_count + call.value.repeat_visits
               = call.value.steps_run + 1

\* what holds of the calls whose step count is not negative
C39_ConsistentForStepsFromZero ==
    args.steps >= 0 => C39_SummaryCountersConsistent

\* C33: an annealing run given a stop_hash returns a summary whose
\* stopped_step is set exactly when its final_hash is the stop_hash; so in
\* every record of recovery_experiment recovered_same_hash is true exactly
\* when recovery_steps is set, and the experiment holds as many recovery
\* times as it holds recovered trials.
RecordRedundant(r) ==
    /\ r.recovery_steps # None <=> r.final_hash = r.basin_hash
    /\ r.recovered_same_hash <=> r.recovery_steps # None

C33_RecoveryConditionsRedundant ==
    /\ (call.name = "explore_anneal_local" /\ pc = "returned" /\ args.stop_hash # None) =>
           (call.value.stopped_step # None <=> call.value.final_hash = args.stop_hash)
    /\ call.name = "recovery_experiment" =>
           /\ \A i \in DOMAIN before.per_trial : RecordRedundant(before.per_trial[i])
           /\ Len(before.recovery_times) = CountTrue(before.recovered_flags)
           /\ pc = "returned" =>
                  call.value.recovery_time_n = call.value.recovery_rate[1]

\* a returned experiment of two trials, the first recovered at step 0
C33_Witness ==
    /\ call.name = "recovery_experiment"
    /\ pc = "returned"
    /\ args.trials = MaxTrials
    /\ call.value.per_trial[1].recovery_steps = <<0>>
    /\ call.value.recovery_time_n = MaxTrials

\* a returned experiment with a trial that did not come back to its basin
C33_NotRecovered ==
    /\ call.name = "recovery_experiment"
    /\ pc = "returned"
    /\ \E i \in DOMAIN call.value.per_trial :
           /\ call.value.per_trial[i].recovery_steps = None
           /\ ~call.value.per_trial[i].recovered_same_hash
    /\ call.value.recovery_time_n < Len(call.value.per_trial)

\* a returned experiment with a trial that came back after its first step
C33_RecoveredLate ==
    /\ call.name = "recovery_experiment"
    /\ pc = "returned"
    /\ \E i \in DOMAIN call.value.per_trial :
           /\ call.value.per_trial[i].recovery_steps # None
           /\ call.value.per_trial[i].recovery_steps # <<0>>

\* an annealing run that stopped at its last step
C33_StoppedLast ==
    /\ call.name = "explore_anneal_local"
    /\ pc = "returned"
    /\ args.stop_hash # None
    /\ call.value.stopped_step = <<args.steps>>
    /\ args.steps > 0

\* C35: apply(b) followed by apply(a) leaves the grid that the single call
\* apply(compose_table[a][b]) leaves on an engine with the same start grid,
\* for every pair of op ids and every start grid.
C35_MovesComposeLikeGroup ==
    pc = "compared" =>
        /\ call.raised = "none"
        /\ before.single.raised = "none"
        /\ grid = before.single.eng.grid

\* two moves that do not commute, made on a shuffled grid
C35_Witness ==
    /\ pc = "compared"
    /\ compose_entry(args.a, args.b).value # compose_entry(args.b, args.a).value
    /\ before.start.grid # construct(N).grid
    /\ grid # before.start.grid
    /\ N = 5

\* C37: with center (0, 0, 0) and radius N // 2 the region is the whole
\* lattice, and apply_local(op, center, radius) leaves the grid that
\* apply(op) leaves on an engine with the same start grid, for every op id
\* and every start grid.
C37_WholeLatticeLocalIsGlobal ==
    pc = "compared" =>
        /\ call.raised = "none"
        /\ before.global.raised = "none"
        /\ grid = before.global.eng.grid

\* a third of a turn made on a shuffled grid of size 5 with radius 2
C37_Witness ==
    /\ pc = "compared"
    /\ N = 5
    /\ args.radius = 2
    /\ inverse_rotation_index(args.op_id).value # args.op_id
    /\ before.start.grid # construct(N).grid
    /\ grid # before.start.grid
    /\ last_action = <<"local", args.op_id, <<0, 0, 0>>, 2>>

\* the grids that one global move makes of the grid the walk started on
OrbitOfStart ==
    {apply([construct(N) EXCEPT !.grid = before.trail[0]], c).eng.grid :
        c \in 0..(NUM_ROTATIONS - 1)}

\* C36: in explore_random the grid after every step is one of the at most 24
\* grids that a single global move makes of the start grid, so the summary
\* has unique_state_count <= 24 and, when steps >= 24, a first_repeat_step
\* that is set and at most 24.
C36_GlobalWalkStaysInOrbit ==
    (args.driver = "explore_random" /\ pc \in {"start", "walking", "returned"}) =>
        /\ grid \in OrbitOfStart
        /\ Cardinality(DOMAIN before.first_seen_step) <= NUM_ROTATIONS
        /\ before.first_repeat_step = None =>
               Cardinality(DOMAIN before.first_seen_step) = before.step + 1
        /\ pc = "returned" =>
               /\ call.value.unique_state_count <= NUM_ROTATIONS
               /\ args.steps >= NUM_ROTATIONS =>
                      /\ call.value.first_repeat_step # None
                      /\ call.value.first_repeat_step[1] <= NUM_ROTATIONS

\* a returned walk of more steps than the group has elements, from a
\* shuffled grid, that went through more than half of the orbit
C36_Witness ==
    /\ pc = "returned"
    /\ args.driver = "explore_random"
    /\ args.steps > NUM_ROTATIONS
    /\ args.init_seed # None
    /\ call.value.unique_state_count > NUM_ROTATIONS \div 2
    /\ call.value.first_repeat_step # None
    /\ Cardinality(DOMAIN before.trail) = args.steps + 1

\* C34: on every engine reached from construct(N) by randomize, apply,
\* apply_local and perturb calls, whether they returned or were rejected,
\* the permutation check, the rotation-map check for the last action and
\* the inverse round trip pass, and audit() returns.
C34_AuditPassesOnReachable ==
    /\ _audit_permutation(Engine).raised = "none"
    /\ _audit_rot_maps(Engine).raised = "none"
    /\ _audit_inverse_roundtrip(Engine).raised = "none"
    /\ audit(Engine).raised = "none"
    /\ call.name = "audit" => call.raised = "none"

\* the engine after a randomize and a local move of a region off the origin
C34_Witness ==
    /\ calls = MaxCalls
    /\ call.name = "apply_local"
    /\ call.raised = "none"
    /\ last_action = <<"local", 5, <<1, -1, 0>>, 1>>
    /\ Cardinality({i \in DOMAIN grid : grid[i] # i}) > 3 * 3 * 3

\* the engine after a perturb that raised at a later step
C34_AfterRaisedPerturb ==
    /\ call.name = "perturb"
    /\ call.raised # "none"
    /\ last_action # None
    /\ grid # IdentityGrid(N)

\* C31: no error is swallowed or retried inside the loops of the drivers:
\* an exception raised by a call on the engine, by a draw of the generator
\* or by the temperature schedule function ends the driver with that
\* exception, so at
\* most one exception is ever raised, a failed audit is the last call made,
\* and the schedule function is invoked at most once in a step.
C31_NoErrorSwallowedOrRetried ==
    /\ call.raised # "none" <=> pc = "raised"
    /\ before.errors # <<>> =>
           /\ pc = "raised"
           /\ Len(before.errors) = 1
           /\ call.raised = before.errors[1]
    /\ before.invocations <= before.step
    /\ \A i \in DOMAIN before.log :
           before.log[i] = "audit failed" => (i = Len(before.log) /\ pc = "raised")

\* what holds whatever the schedule function does: an exception other than
\* TypeError ends the driver after one invocation, a TypeError is followed
\* by one more invocation in the same step, and the driver ends with what
\* that invocation raised or goes on with what it returned
C31_TypeErrorInvokesAgain ==
    /\ call.raised # "none" <=> pc = "raised"
    /\ before.invocations <= 2 * before.step
    /\ before.errors # <<>> =>
           /\ \A i \in 1..(Len(before.errors) - 1) : before.errors[i] = "TypeError"
           /\ before.errors[Len(before.errors)] # "TypeError" =>
                  pc = "raised" /\ call.raised = before.errors[Len(before.errors)]
    /\ pc = "raised" /\ args.temp_schedule.kind = "function" /\ before.errors = <<>> =>
           call.raised \notin {"TypeError", "RuntimeError"}

\* a run that returned although its schedule function had raised
C31_Swallowed ==
    /\ pc = "returned"
    /\ before.errors = <<"TypeError">>
    /\ before.invocations = before.step + 1
====
